---- MODULE Spec2Model ----
(***************************************************************************)
(* ESNODE-Core: the collection scheduler, the shared status state, the     *)
(* metrics counters it drives, and the policy enforcement loop with its    *)
(* flap dampener.                                                          *)
(*                                                                         *)
(* Time is a discrete clock `now`; one unit stands for one millisecond-    *)
(* granular instant of the monotonic clock.  Floating point readings are   *)
(* integers in hundredths (85.0 is 8500).                                  *)
(***************************************************************************)
EXTENDS Integers, Sequences, FiniteSets, TLC

\* ------------------------------------------------------------------ bounds
MaxTime == 3
ScrapeInterval == 2
EnforcementInterval == 1
DampeningInterval == 2
MaxRecorded == 12
MaxDampenerCalls == 4
MaxSource == 2
MaxSamples == 4
MaxDatapoints == 2
MaxReports == 4
RcaWindow == 4
MaxSnapshots == 5
RiskWindow == 2
ThermalSamplesLimit == 2
MaxAnalyses == 4
TsdbInterval == 3
MaxTsdbTicks == 5
MaxNicTicks == 2
MaxLevels == 3
MaxEdits == 2
BufferLimit == 3
DrainCount == 2
MaxReadings == 6
MaxReads == 3

\* ------------------------------------------------------- program constants
ErrorRingCap == 10

\* The collectors Agent::new registers, in registration order (a subset of
\* the enable_* flags switched on).
Collectors == <<"cpu", "gpu">>

CollectorNames == {Collectors[i] : i \in 1..Len(Collectors)}

\* Messages a failing collector can return.
ErrMessages == {"io"}

\* --------------------------------------------------------------- readings
GpuUuids == <<"GPU-a", "GPU-b">>

TempValues == {7000, 8500}

UtilValues == {200}

\* The lists of GpuStatus a successful gpu collect call can publish.
GpuReadings ==
    { [i \in 1..Len(GpuUuids) |->
          [uuid |-> GpuUuids[i], temperature_celsius |-> tf[i], util_percent |-> uf[i]]] :
        tf \in [1..Len(GpuUuids) -> TempValues], uf \in [1..Len(GpuUuids) -> UtilValues] }

\* ------------------------------------------------------------ policy.rs
\* Strings the code takes apart are sequences of one-character strings.
Digits == <<"0", "1", "2", "3", "4", "5", "6", "7", "8", "9">>

IsDigit(c) == \E d \in 1..10 : Digits[d] = c

DigitVal(c) == (CHOOSE d \in 1..10 : Digits[d] = c) - 1

RECURSIVE DigitsValueUpTo(_, _)
DigitsValueUpTo(ds, n) ==
    IF n = 0 THEN 0 ELSE DigitsValueUpTo(ds, n - 1) * 10 + DigitVal(ds[n])

DigitsValue(ds) == DigitsValueUpTo(ds, Len(ds))

\* str::parse::<f64> on decimal literals: optional sign, digits, optional
\* point and digits, at least one digit.  The value is in hundredths; the
\* literals of the modelled profiles carry at most two decimals.
ParseF64(tok) ==
    LET signed == tok # <<>> /\ Head(tok) \in {"+", "-"}
        body == IF signed THEN Tail(tok) ELSE tok
        dots == {i \in 1..Len(body) : body[i] = "."}
        dot == IF dots = {} THEN Len(body) + 1 ELSE CHOOSE i \in dots : TRUE
        ip == SubSeq(body, 1, dot - 1)
        fp == SubSeq(body, dot + 1, Len(body))
        ok == /\ Cardinality(dots) <= 1
              /\ \A i \in 1..Len(ip) : IsDigit(ip[i])
              /\ \A i \in 1..Len(fp) : IsDigit(fp[i])
              /\ Len(ip) + Len(fp) >= 1
              /\ Len(fp) <= 2
        mag == IF ~ok THEN 0
               ELSE DigitsValue(ip) * 100 +
                    (IF Len(fp) = 1 THEN DigitVal(fp[1]) * 10 ELSE DigitsValue(fp))
    IN [ok |-> ok, val |-> IF signed /\ Head(tok) = "-" THEN 0 - mag ELSE mag]

\* str::split_whitespace: the maximal runs of non-space characters, in order.
split_whitespace(str) ==
    LET starts == {i \in 1..Len(str) : str[i] # " " /\ (i = 1 \/ str[i - 1] = " ")}
        StartOf(k) == CHOOSE i \in starts : Cardinality({j \in starts : j < i}) = k - 1
        EndOf(i) == CHOOSE j \in i..Len(str) :
                        /\ \A m \in i..j : str[m] # " "
                        /\ (j = Len(str) \/ str[j + 1] = " ")
    IN [k \in 1..Cardinality(starts) |-> SubSeq(str, StartOf(k), EndOf(StartOf(k)))]

\* val_str.replace(['%', 'C'], "")
StripUnits(tok) ==
    LET Kept(c) == c \notin {"%", "C"} IN SelectSeq(tok, Kept)

\* A check_condition that parses the threshold without stripping the unit.
check_condition_NoStrip(current, condition) ==
    LET parts == split_whitespace(condition) IN
    IF Len(parts) < 2 THEN [violated |-> FALSE, threshold |-> 0]
    ELSE LET op == parts[1]
             parsed == ParseF64(parts[2])
             threshold == IF parsed.ok THEN parsed.val ELSE 0
             violated ==
                 CASE op = <<">">> -> current > threshold
                   [] op = <<">", "=">> -> current >= threshold
                   [] op = <<"<">> -> current < threshold
                   [] op = <<"<", "=">> -> current <= threshold
                   [] op = <<"=">> \/ op = <<"=", "=">> -> current = threshold
                   [] op = <<"!", "=">> -> current # threshold
                   [] OTHER -> FALSE
         IN [violated |-> violated, threshold |-> threshold]

\* check_condition: (is_violated, threshold_value)
check_condition(current, condition) ==
    LET parts == split_whitespace(condition) IN
    IF Len(parts) < 2 THEN [violated |-> FALSE, threshold |-> 0]
    ELSE LET op == parts[1]
             parsed == ParseF64(StripUnits(parts[2]))
             threshold == IF parsed.ok THEN parsed.val ELSE 0
             violated ==
                 CASE op = <<">">> -> current > threshold
                   [] op = <<">", "=">> -> current >= threshold
                   [] op = <<"<">> -> current < threshold
                   [] op = <<"<", "=">> -> current <= threshold
                   [] op = <<"=">> \/ op = <<"=", "=">> -> current = threshold
                   [] op = <<"!", "=">> -> current # threshold
                   [] OTHER -> FALSE
         IN [violated |-> violated, threshold |-> threshold]

\* format!("{:.1}", v): v in hundredths rendered in tenths.
Fmt1(v) == IF v >= 0 THEN (v + 5) \div 10 ELSE 0 - ((5 - v) \div 10)

\* format!("GPU-{}", gpu.uuid.clone().unwrap_or(gpu.gpu.clone()))
TargetResource(gpu) == <<"GPU-", gpu.uuid>>

PolicyPlan(name, target, current, threshold, status, action) ==
    [policy_name |-> name, target_resource |-> target, current_value |-> current,
     threshold |-> threshold, status |-> status, computed_action |-> action]

\* A plan that describes the action on every entry, violated or not.
PlanPolicy_AlwaysAction(policy, gpus) ==
    CASE policy.target = "gpu_temp_celsius" ->
           [i \in 1..Len(gpus) |->
              LET current == gpus[i].temperature_celsius
                  cc == check_condition(current, policy.condition)
              IN PolicyPlan(policy.name, TargetResource(gpus[i]),
                            <<Fmt1(current), "C">>, <<Fmt1(cc.threshold), "C">>,
                            IF cc.violated THEN "Violated" ELSE "Satisfied",
                            <<"Execute", policy.action.action_type, policy.action.parameters>>)]
      [] policy.target = "gpu_utilization" ->
           [i \in 1..Len(gpus) |->
              LET current == gpus[i].util_percent
                  cc == check_condition(current, policy.condition)
              IN PolicyPlan(policy.name, TargetResource(gpus[i]),
                            <<Fmt1(current), "%">>, <<Fmt1(cc.threshold), "%">>,
                            IF cc.violated THEN "Violated" ELSE "Satisfied",
                            <<"Action", policy.action.action_type>>)]
      [] OTHER ->
           <<PolicyPlan(policy.name, <<"ALL">>, <<"N/A">>, policy.condition, "Skipped", <<>>)>>

\* The entries one policy contributes to the plan.
PlanPolicy(policy, gpus) ==
    CASE policy.target = "gpu_temp_celsius" ->
           [i \in 1..Len(gpus) |->
              LET current == gpus[i].temperature_celsius
                  cc == check_condition(current, policy.condition)
              IN PolicyPlan(policy.name, TargetResource(gpus[i]),
                            <<Fmt1(current), "C">>, <<Fmt1(cc.threshold), "C">>,
                            IF cc.violated THEN "Violated" ELSE "Satisfied",
                            IF cc.violated THEN <<"Execute", policy.action.action_type,
                                                  policy.action.parameters>>
                                           ELSE <<>>)]
      [] policy.target = "gpu_utilization" ->
           [i \in 1..Len(gpus) |->
              LET current == gpus[i].util_percent
                  cc == check_condition(current, policy.condition)
              IN PolicyPlan(policy.name, TargetResource(gpus[i]),
                            <<Fmt1(current), "%">>, <<Fmt1(cc.threshold), "%">>,
                            IF cc.violated THEN "Violated" ELSE "Satisfied",
                            IF cc.violated THEN <<"Action", policy.action.action_type>>
                                           ELSE <<>>)]
      [] OTHER ->
           <<PolicyPlan(policy.name, <<"ALL">>, <<"N/A">>, policy.condition, "Skipped", <<>>)>>

RECURSIVE PlanFrom(_, _)
PlanFrom(policies, gpus) ==
    IF policies = <<>> THEN <<>>
    ELSE PlanPolicy(Head(policies), gpus) \o PlanFrom(Tail(policies), gpus)

\* EfficiencyProfile::plan: matched_policies
plan(profile, gpus) == PlanFrom(profile.policies, gpus)

\* ------------------------------------------------------------- profiles
Throttle300 == [action_type |-> "throttle_power", parameters |-> <<"limit_watts", 300>>]

AlertAction == [action_type |-> "alert", parameters |-> <<>>]

PolicyRule(name, target, condition, action) ==
    [name |-> name, target |-> target, condition |-> condition, action |-> action]

\* One thermal rule, as in the repository's policy tests.
ProfileThermal ==
    [policies |-> <<PolicyRule("thermal-safety", "gpu_temp_celsius",
                               <<">", " ", "8", "0">>, Throttle300)>>]

\* Two rules carrying the same name, and a rule on a target plan skips.
ProfileMixed ==
    [policies |-> <<PolicyRule("hot", "gpu_temp_celsius", <<">", "=", " ", "8", "5", "C">>,
                               AlertAction),
                    PolicyRule("hot", "gpu_utilization", <<"<", " ", "5", "%">>, Throttle300),
                    PolicyRule("mem", "memory_allocated_percent", <<">", " ", "9", "0">>,
                               AlertAction)>>]

\* What reading and parsing the profile file yields on a tick.
ProfileLoads ==
    {[ok |-> FALSE, profile |-> [policies |-> <<>>]],
     [ok |-> TRUE, profile |-> ProfileThermal],
     [ok |-> TRUE, profile |-> ProfileMixed]}

\* ------------------------------------------ conditions, targets, snapshots
\* The operators check_condition matches on.
Operators ==
    {<<">">>, <<">", "=">>, <<"<">>, <<"<", "=">>, <<"=">>, <<"=", "=">>, <<"!", "=">>}

\* Threshold literals, with the value each one denotes (in hundredths).
NumberLiterals ==
    {[text |-> <<"8", "0">>, value |-> 8000],
     [text |-> <<"5">>, value |-> 500],
     [text |-> <<"8", "0", ".", "5">>, value |-> 8050]}

\* The unit characters check_condition strips, and no unit at all.
UnitSuffixes == {<<>>, <<"%">>, <<"C">>}

\* "<op> <number>[unit]"
ConditionText(op, num, unit) == op \o <<" ">> \o num.text \o unit

WellFormedCases ==
    {[kind |-> "wellformed", op |-> op, value |-> num.value, unit |-> unit,
      text |-> ConditionText(op, num, unit)] :
        op \in Operators, num \in NumberLiterals, unit \in UnitSuffixes}

\* Condition strings outside the grammar: operator not separated from the
\* number, unknown operator, missing threshold, non-numeric threshold, extra
\* tokens.
MalformedTexts ==
    {<<">", "8", "0">>,
     <<"~", " ", "8", "0">>,
     <<">">>,
     <<">", " ", "h", "o", "t">>,
     <<">", " ", "8", "0", " ", "9", "0">>}

MalformedCases ==
    {[kind |-> "malformed", op |-> <<>>, value |-> 0, unit |-> <<>>, text |-> text] :
        text \in MalformedTexts}

\* enum PolicyTarget, in its serialised form
PolicyTargets ==
    {"gpu_temp_celsius", "gpu_utilization", "gpu_power_watts",
     "memory_allocated_percent", "tokens_per_watt"}

\* The profiles a plan command is run with: one rule over every target and
\* every condition, and the multi-rule profiles.
PlanInputs ==
    {[case |-> c,
      profile |-> [policies |-> <<PolicyRule("rule", target, c.text, Throttle300)>>]] :
        c \in WellFormedCases \cup MalformedCases, target \in PolicyTargets}
    \cup
    {[case |-> [kind |-> "profile", op |-> <<>>, value |-> 0, unit |-> <<>>, text |-> <<>>],
      profile |-> profile] : profile \in {ProfileThermal, ProfileMixed}}

\* status.gpus of the snapshots the command fetches: no GPU, one GPU around
\* the thresholds, two GPUs.
PlanGpuLists ==
    {<<>>}
    \cup {<<[uuid |-> GpuUuids[1], temperature_celsius |-> t, util_percent |-> u]>> :
            t \in {8000, 8001, 8500}, u \in {200, 500, 8000}}
    \cup GpuReadings

\* ------------------------------------------------------ delta counters
\* Registry counters fed with the difference of two source readings, one
\* for each way the collectors compute that difference: the network counters
\* (bytes, packets, errors, drops; rx and tx) saturate; the ECC, PCIe replay
\* and NVLink error counters compare first and default to 0; the NVLink byte
\* counters compare first and need a previous reading.
NetFamilies == {"network_rx_bytes_total"}

GpuFamilies == {"gpu_ecc_errors_total", "gpu_nvlink_rx_bytes_total"}

DeltaFamilies == NetFamilies \cup GpuFamilies

\* The values a source counter can be read at.
SourceValues == 0..MaxSource

\* A read that may fail or be unavailable: <<>> or <<value>>.
SourceReads == {<<>>} \cup {<<v>> : v \in SourceValues}

\* u64::saturating_sub
saturating_sub(a, b) == IF a >= b THEN a - b ELSE 0

\* A network delta computed with a plain signed difference.
NetworkDelta_Signed(prev, cur) ==
    LET p == IF prev = <<>> THEN 0 ELSE prev[1]
    IN [delta |-> cur - p, prev |-> <<cur>>]

\* NetworkCollector::collect, one counter of one interface: the entry of
\* `previous` defaults to 0, the delta saturates, the entry takes the reading.
NetworkDelta(prev, cur) ==
    LET p == IF prev = <<>> THEN 0 ELSE prev[1]
    IN [delta |-> saturating_sub(cur, p), prev |-> <<cur>>]

\* GpuCollector::collect, ECC, PCIe replay, NVLink errors: prev defaults to 0, the
\* counter is incremented only if the reading is not below prev, prev takes
\* the reading.
GuardedDelta(prev, cur) ==
    LET p == IF prev = <<>> THEN 0 ELSE prev[1]
    IN [delta |-> IF cur >= p THEN cur - p ELSE 0, prev |-> <<cur>>]

\* GpuCollector::collect, NVLink bytes: nothing is added without a previous
\* reading.
NvlinkDelta(prev, cur) ==
    [delta |-> IF prev # <<>> /\ cur >= prev[1] THEN cur - prev[1] ELSE 0, prev |-> <<cur>>]

\* The delta rule of each counter.
DeltaOf(f, prev, cur) ==
    CASE f \in NetFamilies -> NetworkDelta(prev, cur)
      [] f = "gpu_nvlink_rx_bytes_total" -> NvlinkDelta(prev, cur)
      [] OTHER -> GuardedDelta(prev, cur)

\* ------------------------------------------------------ protocol drivers
DriverKinds == {"modbus", "dnp3", "snmp", "mqtt"}

\* The driver lists a runner is built with.
DriverConfigs == {<<k>> : k \in DriverKinds} \cup {<<"modbus", "snmp">>}

\* What the exchange for one datapoint meets: an answer, no answer within
\* the time allowed, or an I/O error.
ReadOutcomes == {"ok", "timeout", "io"}

\* What a driver meets during one collect call: the outcome of each
\* datapoint's exchange, and whether a connect() would succeed.
DriverEnvs == [outcomes : [1..MaxDatapoints -> ReadOutcomes], connect_ok : BOOLEAN]

ReadOk(readings) == [ok |-> TRUE, readings |-> readings]

ReadErr == [ok |-> FALSE, readings |-> <<>>]

\* The datapoints, in order, whose exchange was answered.
Answered(outcomes) ==
    LET IsOk(i) == outcomes[i] = "ok"
    IN SelectSeq([i \in 1..MaxDatapoints |-> i], IsOk)

\* ModbusDriver::read_all: Err without a context, Err at the first mapping
\* whose read fails, else one reading per mapping.
ModbusReadAll(conn, outcomes) ==
    IF ~conn THEN ReadErr
    ELSE IF \E i \in 1..MaxDatapoints : outcomes[i] # "ok" THEN ReadErr
    ELSE ReadOk([i \in 1..MaxDatapoints |-> i])

\* SnmpDriver::read_all: nothing is read without a socket; a send or receive
\* error returns Err; an OID whose answer times out is passed over.
SnmpReadAll(conn, outcomes) ==
    IF ~conn THEN ReadOk(<<>>)
    ELSE IF \E i \in 1..MaxDatapoints : outcomes[i] = "io" THEN ReadErr
    ELSE ReadOk(Answered(outcomes))

\* Dnp3Driver::read_all: nothing is sent without a stream; a failed send
\* returns Err; the response is not looked at; the result is empty.
Dnp3ReadAll(conn, outcomes) ==
    IF conn /\ outcomes[1] = "io" THEN ReadErr ELSE ReadOk(<<>>)

\* MqttDriver::read_all: drains what the receiver task has buffered since
\* the last call; the task exists once connect() has succeeded.
MqttReadAll(conn, outcomes) ==
    ReadOk(IF conn THEN Answered(outcomes) ELSE <<>>)

\* driver.read_all()
read_all(driver, outcomes) ==
    CASE driver.kind = "modbus" -> ModbusReadAll(driver.conn, outcomes)
      [] driver.kind = "snmp" -> SnmpReadAll(driver.conn, outcomes)
      [] driver.kind = "dnp3" -> Dnp3ReadAll(driver.conn, outcomes)
      [] driver.kind = "mqtt" -> MqttReadAll(driver.conn, outcomes)

\* driver.connect(): the connection is stored only when it was established.
connect(driver, connect_ok) ==
    IF connect_ok THEN [driver EXCEPT !.conn = TRUE] ELSE driver

\* A transport error touched the call: no connection, or a datapoint's
\* exchange timed out or failed (DNP3 makes one exchange per call).
TransportError(driver, outcomes) ==
    \/ ~driver.conn
    \/ \E i \in 1..(IF driver.kind = "dnp3" THEN 1 ELSE MaxDatapoints) : outcomes[i] # "ok"

\* ProtocolRunner::collect, the loop body for one driver: the readings are
\* published, or the error is logged and connect() is called.
RunnerStep(driver, env) ==
    LET r == read_all(driver, env.outcomes) IN
    [driver |-> IF r.ok THEN driver ELSE connect(driver, env.connect_ok),
     readings |-> r.readings,
     log |-> [kind |-> driver.kind, conn |-> driver.conn, ok |-> r.ok,
              count |-> Len(r.readings),
              transport |-> TransportError(driver, env.outcomes),
              connect_attempted |-> ~r.ok]]

\* ProtocolRunner::collect returns Ok(()) at the end of the loop.
RunnerResult(steps) == TRUE

\* ------------------------------------------------------------ app collector
\* What fetching and parsing the application's metrics endpoint yields.
AppResponses == {"unreachable", "no_tokens", "tokens"}

\* AppCollector::collect: Ok(()) on every path.
AppCollect(state, response) ==
    CASE response = "unreachable" -> [ok |-> TRUE, state |-> [state EXCEPT !.warned = TRUE]]
      [] response = "no_tokens" -> [ok |-> TRUE, state |-> state]
      [] response = "tokens" ->
           [ok |-> TRUE, state |-> [warned |-> FALSE, last_tokens |-> <<1>>]]


\* --------------------------------------------------------- collectors/pue.rs
\* Power readings are whole watts.  A ratio of two of them is kept as the
\* pair [num, den] that stands for num / den; two ratios are compared by
\* cross-multiplication, which agrees with the comparison of the quotients
\* for readings of this size.
ItSources == {"server-1", "server-2"}

FacilitySources == {"pdu-1", "pdu-2"}

ItWatts == {500, 1000}

FacilityWatts == {1000, 6000}

PueReports ==
    [side : {"it"}, source : ItSources, watts : ItWatts]
        \cup [side : {"facility"}, source : FacilitySources, watts : FacilityWatts]

Ratio(n, d) == [num |-> n, den |-> d]

RatioEq(a, b) == a.num * b.den = b.num * a.den

RatioLe(a, b) == a.num * b.den <= b.num * a.den

RatioLt(a, b) == a.num * b.den < b.num * a.den

\* sources.values().sum()
RECURSIVE SumValues(_)
SumValues(sources) ==
    IF DOMAIN sources = {} THEN 0
    ELSE LET s == CHOOSE x \in DOMAIN sources : TRUE
         IN sources[s] + SumValues([x \in DOMAIN sources \ {s} |-> sources[x]])

\* sources.insert(source, watts), summed instead of replaced
insert_Accumulate(sources, source, watts) ==
    [s \in DOMAIN sources \cup {source} |->
        IF s = source
        THEN (IF s \in DOMAIN sources THEN sources[s] + watts ELSE watts)
        ELSE sources[s]]

\* sources.insert(source, watts)
insert(sources, source, watts) ==
    [s \in DOMAIN sources \cup {source} |-> IF s = source THEN watts ELSE sources[s]]

\* calculate_pue without the cap
calculate_pue_NoCap(it, facility) ==
    IF it <= 0 THEN Ratio(0, 1)
    ELSE Ratio(facility, it)

\* calculate_pue on the two totals: 0.0 without IT power, 10.0 above 10.0,
\* the quotient otherwise (a quotient below 1.0 is only logged).
calculate_pue(it, facility) ==
    IF it <= 0 THEN Ratio(0, 1)
    ELSE IF RatioLt(Ratio(10, 1), Ratio(facility, it)) THEN Ratio(10, 1)
    ELSE Ratio(facility, it)

\* (it / facility) * 100.0
calculate_efficiency(it, facility) ==
    IF facility <= 0 THEN Ratio(0, 1) ELSE Ratio(it * 100, facility)

\* (facility - it).max(0.0)
calculate_overhead(it, facility) ==
    IF facility - it > 0 THEN facility - it ELSE 0

\* The five gauges collect_internal sets.
PueGauges(it_sources, facility_sources) ==
    LET it == SumValues(it_sources)
        facility == SumValues(facility_sources)
    IN [pue_ratio |-> calculate_pue(it, facility),
        pue_it_power_watts |-> it,
        pue_facility_power_watts |-> facility,
        pue_efficiency_percent |-> calculate_efficiency(it, facility),
        pue_overhead_watts |-> calculate_overhead(it, facility)]


\* ------------------------------------------------------------------ rca.rs
\* The fields of a StatusSnapshot the engine reads: per GPU util_percent (an
\* Option, in hundredths) and thermal_throttle, and the two flags.
RcaGpu(util, throttle) == [util_percent |-> util, thermal_throttle |-> throttle]

RcaSnapshot(gpus, net, k8s) ==
    [gpus |-> gpus, network_degraded |-> net, k8s_events_detected |-> k8s]

RcaSnapshots ==
    { RcaSnapshot(<<RcaGpu(<<9000>>, FALSE)>>, FALSE, FALSE),
      RcaSnapshot(<<RcaGpu(<<9000>>, FALSE)>>, TRUE, FALSE),
      RcaSnapshot(<<RcaGpu(<<5000>>, FALSE)>>, FALSE, FALSE),
      RcaSnapshot(<<RcaGpu(<<4000>>, FALSE)>>, FALSE, FALSE),
      RcaSnapshot(<<RcaGpu(<<4000>>, TRUE)>>, FALSE, FALSE),
      RcaSnapshot(<<RcaGpu(<<4000>>, TRUE)>>, FALSE, TRUE),
      RcaSnapshot(<<RcaGpu(<<4000>>, FALSE)>>, FALSE, TRUE),
      RcaSnapshot(<<RcaGpu(<<4000>>, TRUE)>>, TRUE, TRUE),
      RcaSnapshot(<<RcaGpu(<<>>, FALSE)>>, FALSE, TRUE),
      RcaSnapshot(<<RcaGpu(<<6000>>, FALSE), RcaGpu(<<9000>>, FALSE)>>, FALSE, FALSE),
      RcaSnapshot(<<RcaGpu(<<4000>>, FALSE), RcaGpu(<<6000>>, TRUE)>>, FALSE, TRUE),
      RcaSnapshot(<<>>, FALSE, FALSE) }

\* scrape_interval as the configuration gives it, in seconds
RcaScrapeIntervals == {1, 3}

\* (duration.as_secs_f64() / scrape_interval.as_secs_f64()).ceil() as usize
AnalysisWindow_new(duration, scrape_interval) ==
    [capacity |-> (duration + scrape_interval - 1) \div scrape_interval,
     samples |-> <<>>]

\* AnalysisWindow::add that never evicts
add_NoEvict(window, instant, snapshot) ==
    [window EXCEPT !.samples = Append(@, [ts |-> instant, snapshot |-> snapshot])]

\* AnalysisWindow::add: pop_front when the window is at capacity, push_back
add(window, instant, snapshot) ==
    LET kept == IF Len(window.samples) >= window.capacity /\ window.samples # <<>>
                THEN Tail(window.samples) ELSE window.samples
    IN [window EXCEPT !.samples = Append(kept, [ts |-> instant, snapshot |-> snapshot])]

\* check_network_cause looking at the whole window
check_network_cause_WholeWindow(samples) ==
    \E i \in 1..Len(samples) : samples[i].snapshot.network_degraded

\* check_network_cause: samples.iter().rev().take(3)
check_network_cause(samples) ==
    \E i \in 1..Len(samples) :
        /\ i > Len(samples) - 3
        /\ samples[i].snapshot.network_degraded

\* unwrap_or(0.0)
unwrap_or_zero(opt) == IF opt = <<>> THEN 0 ELSE opt[1]

\* The body of analyze's loop for one index of latest.gpus: the events it
\* pushes (none or one).  An event carries the index its description names.
AnalyzeGpu(samples, idx) ==
    LET latest == samples[Len(samples)].snapshot
        prev == samples[Len(samples) - 1].snapshot
        gpu == latest.gpus[idx]
    IN IF idx > Len(prev.gpus) THEN <<>>
       ELSE LET curr_util == unwrap_or_zero(gpu.util_percent)
                prev_util == unwrap_or_zero(prev.gpus[idx].util_percent)
            IN IF prev_util > 5000 /\ curr_util < prev_util - 2000
               THEN IF check_network_cause(samples)
                    THEN << [cause |-> "NetworkLatency", gpu |-> idx - 1, confidence |-> 80] >>
                    ELSE IF gpu.thermal_throttle
                    THEN << [cause |-> "ThermalThrottling", gpu |-> idx - 1, confidence |-> 100] >>
                    ELSE IF latest.k8s_events_detected
                    THEN << [cause |-> "KubernetesEvents", gpu |-> idx - 1, confidence |-> 90] >>
                    ELSE <<>>
               ELSE <<>>

RECURSIVE AnalyzeFrom(_, _)
AnalyzeFrom(samples, idx) ==
    IF idx > Len(samples[Len(samples)].snapshot.gpus) THEN <<>>
    ELSE AnalyzeGpu(samples, idx) \o AnalyzeFrom(samples, idx + 1)

\* RcaEngine::analyze
analyze(samples) ==
    IF Len(samples) < 2 THEN <<>> ELSE AnalyzeFrom(samples, 1)


\* ------------------------------------------------------------ predictive.rs
\* A GPU of a snapshot as the predictor reads it: uuid and health (an Option)
\* with its Option fields.  Probabilities are in hundredths.
Health(c, u, reasons, pages) ==
    << [ecc_corrected_aggregate |-> c, ecc_uncorrected_aggregate |-> u,
        throttle_reasons |-> reasons, retired_pages |-> pages] >>

\* The throttle reasons are the lists the gpu collector builds: "thermal" and
\* "power", in this order, each present or not.
RiskHealths ==
    { <<>>,
      Health(<<0>>, <<0>>, <<"thermal">>, <<>>),
      Health(<<100>>, <<>>, <<"power">>, <<1>>),
      Health(<<1100>>, <<0>>, <<"thermal", "power">>, <<>>),
      Health(<<>>, <<5>>, <<"thermal">>, <<2>>),
      Health(<<1100>>, <<5>>, <<"thermal">>, <<2>>) }

RiskGpu(uuid, health) == [uuid |-> uuid, health |-> health]

\* snapshot.gpus, each uuid at most once
RiskSnapshots ==
    {<<>>}
        \cup {<<RiskGpu("GPU-a", h)>> : h \in RiskHealths}
        \cup {<<RiskGpu("GPU-b", Health(<<100>>, <<0>>, <<"thermal">>, <<>>))>>,
              <<RiskGpu("GPU-a", Health(<<0>>, <<0>>, <<>>, <<>>)),
                RiskGpu("GPU-b", Health(<<1100>>, <<5>>, <<"thermal">>, <<2>>))>>}

\* GpuHistory::default()
NoHistory ==
    [ecc_corrected_aggr |-> <<>>, ecc_uncorrected_aggr |-> <<>>,
     throttle_events |-> <<>>, last_assessment |-> <<>>]

\* while let Some((ts, _)) = ring.front() { if now - ts > window { pop_front } else { break } }
RECURSIVE PruneFront(_, _)
PruneFront(ring, instant) ==
    IF ring # <<>> /\ instant - ring[1].ts > RiskWindow
    THEN PruneFront(Tail(ring), instant)
    ELSE ring

\* r.contains("thermal") on the reasons the collector builds
contains_thermal(r) == r = "thermal"

\* the score without its cap
cap_score_None(score) == score

\* score.min(100.0)
cap_score(score) == IF score < 100 THEN score ELSE 100

\* p_fail.min(1.0)
cap_probability(p_fail) == IF p_fail < 100 THEN p_fail ELSE 100

\* The history of one GPU after the pruning and the pushes of one analyze call.
UpdateHistory(history, gpu, instant) ==
    LET corrected == PruneFront(history.ecc_corrected_aggr, instant)
        throttle == PruneFront(history.throttle_events, instant)
    IN IF gpu.health = <<>>
       THEN [history EXCEPT !.ecc_corrected_aggr = corrected, !.throttle_events = throttle]
       ELSE LET h == gpu.health[1]
            IN [history EXCEPT
                   !.ecc_corrected_aggr =
                        IF h.ecc_corrected_aggregate # <<>>
                        THEN Append(corrected, [ts |-> instant, v |-> h.ecc_corrected_aggregate[1]])
                        ELSE corrected,
                   !.ecc_uncorrected_aggr =
                        IF h.ecc_uncorrected_aggregate # <<>>
                        THEN Append(@, [ts |-> instant, v |-> h.ecc_uncorrected_aggregate[1]])
                        ELSE @,
                   !.throttle_events =
                        throttle \o [i \in 1..Len(h.throttle_reasons) |->
                                        [ts |-> instant, v |-> h.throttle_reasons[i]]]]

\* Step 3 of analyze, on the history as updated: [risk_score,
\* failure_probability, factors]; a factor is named by its kind.
Assess(history, gpu) ==
    LET f_uncorrected ==
            gpu.health # <<>> /\ gpu.health[1].ecc_uncorrected_aggregate # <<>>
                /\ gpu.health[1].ecc_uncorrected_aggregate[1] > 0
        ring == history.ecc_corrected_aggr
        delta == IF ring = <<>> THEN 0
                 ELSE IF ring[Len(ring)].v >= ring[1].v THEN ring[Len(ring)].v - ring[1].v
                 ELSE 0
        f_high == ring # <<>> /\ delta > 1000
        f_moderate == ring # <<>> /\ ~(delta > 1000) /\ delta > 100
        thermal_samples ==
            Cardinality({i \in 1..Len(history.throttle_events) :
                            contains_thermal(history.throttle_events[i].v)})
        f_thermal == thermal_samples > ThermalSamplesLimit
        f_pages ==
            gpu.health # <<>> /\ gpu.health[1].retired_pages # <<>>
                /\ gpu.health[1].retired_pages[1] > 1
        score == (IF f_uncorrected THEN 80 ELSE 0) + (IF f_high THEN 50 ELSE 0)
                    + (IF f_moderate THEN 20 ELSE 0) + (IF f_thermal THEN 30 ELSE 0)
                    + (IF f_pages THEN 40 ELSE 0)
        p_fail == 1 + (IF f_uncorrected THEN 50 ELSE 0) + (IF f_high THEN 20 ELSE 0)
                    + (IF f_moderate THEN 5 ELSE 0) + (IF f_thermal THEN 10 ELSE 0)
                    + (IF f_pages THEN 15 ELSE 0)
    IN [risk_score |-> cap_score(score),
        failure_probability |-> cap_probability(p_fail),
        factors |-> (IF f_uncorrected THEN <<"uncorrected ECC">> ELSE <<>>)
                        \o (IF f_high THEN <<"High rate of corrected ECC">> ELSE <<>>)
                        \o (IF f_moderate THEN <<"Moderate corrected ECC">> ELSE <<>>)
                        \o (IF f_thermal THEN <<"Persistent thermal throttling">> ELSE <<>>)
                        \o (IF f_pages THEN <<"Memory page retirement">> ELSE <<>>)]

\* The position of a uuid in snapshot.gpus (uuids occur once).
GpuOf(gpus, uuid) == gpus[CHOOSE i \in 1..Len(gpus) : gpus[i].uuid = uuid]

UuidsOf(gpus) == {gpus[i].uuid : i \in 1..Len(gpus)}

\* FailureRiskPredictor::analyze: [history, results]
risk_analyze(history, gpus, instant) ==
    LET updated == [u \in DOMAIN history \cup UuidsOf(gpus) |->
                       IF u \in UuidsOf(gpus)
                       THEN UpdateHistory(IF u \in DOMAIN history THEN history[u]
                                          ELSE NoHistory, GpuOf(gpus, u), instant)
                       ELSE history[u]]
        results == [u \in UuidsOf(gpus) |-> Assess(updated[u], GpuOf(gpus, u))]
    IN [history |-> [u \in DOMAIN updated |->
                        IF u \in UuidsOf(gpus)
                        THEN [updated[u] EXCEPT !.last_assessment = <<results[u]>>]
                        ELSE updated[u]],
        results |-> results]


\* for (uuid, assessment) in risks { if assessment.risk_score > 0.0 {
\* gpu_failure_risk_score.with_label_values(&[&uuid]).set(risk_score) } }
export_risk(gauge, results) ==
    [u \in DOMAIN gauge \cup {r \in DOMAIN results : results[r].risk_score > 0} |->
        IF u \in DOMAIN results /\ results[u].risk_score > 0
        THEN results[u].risk_score ELSE gauge[u]]

\* -------------------------------------------- control.rs: throttle_power
\* Power values are whole milliwatts, the unit of the NVML constraints.  A
\* requested limit_watts is kept in tenths of a milliwatt, so that the
\* conversion `(limit_watts * 1000.0) as u32` has something to truncate.
\* The unsigned type of the converted limit is taken 16 bits wide (the
\* checker's integers end at 2^31 - 1); the conversion saturates at its ends.
UnsignedMax == 65535

\* the devices NVML knows, by index (position - 1) and by uuid
NvmlDevices ==
    << [uuid |-> <<"a">>, min_limit |-> 2, max_limit |-> 4] >>

ThrottleTargets ==
    { <<"G", "P", "U", "-", "0">>, <<"G", "P", "U", "-", "a">>, <<"0">>, <<"a">>,
      <<"G", "P", "U", "-", "7">>, <<"b">> }

\* limit_watts values, in tenths of a milliwatt: negative, below the minimum,
\* the minimum, inside, the maximum, above it by less than a milliwatt, above
\* it, and beyond the range of u32
LimitWatts == {-10, 19, 20, 30, 40, 44, 50, (UnsignedMax + 1) * 10}

\* action.parameters: a number under "limit_watts", under "limit", under
\* both, a value that is no number, or nothing
ThrottleParameters ==
    {<<>>}
        \cup {[k \in {"limit_watts"} |-> [number |-> l]] : l \in LimitWatts}
        \cup {[k \in {"limit"} |-> [number |-> 30]],
              [k \in {"limit_watts", "limit"} |->
                  IF k = "limit_watts" THEN [number |-> 50] ELSE [number |-> 30]],
              [k \in {"limit_watts"} |-> [text |-> "high"]]}

\* str::strip_prefix("GPU-")
strip_prefix_GPU(target) ==
    IF Len(target) >= 4 /\ SubSeq(target, 1, 4) = <<"G", "P", "U", "-">>
    THEN <<SubSeq(target, 5, Len(target))>> ELSE <<>>

\* str::parse::<u32> on the modelled targets (no sign, no overflow)
ParseU32(s) ==
    IF s # <<>> /\ \A i \in 1..Len(s) : IsDigit(s[i]) THEN <<DigitsValue(s)>> ELSE <<>>

\* nvml.device_by_index(idx): the position of the device, <<>> on error
device_by_index(idx) == IF idx + 1 \in 1..Len(NvmlDevices) THEN <<idx + 1>> ELSE <<>>

\* nvml.device_by_uuid(uuid)
device_by_uuid(uuid) ==
    LET hits == {i \in 1..Len(NvmlDevices) : NvmlDevices[i].uuid = uuid}
    IN IF hits = {} THEN <<>> ELSE <<CHOOSE i \in hits : TRUE>>

\* The device the target names: "GPU-<index>", "GPU-<uuid>", or the bare
\* index or uuid.
FindDevice(target) ==
    LET name == IF strip_prefix_GPU(target) # <<>> THEN strip_prefix_GPU(target)[1] ELSE target
    IN IF ParseU32(name) # <<>> THEN device_by_index(ParseU32(name)[1])
       ELSE device_by_uuid(name)

\* (limit_watts * 1000.0) as u32: truncation toward zero, saturating
limit_microwatts_of(limit_watts) ==
    IF limit_watts < 0 THEN 0
    ELSE IF limit_watts \div 10 > UnsignedMax THEN UnsignedMax
    ELSE limit_watts \div 10

\* a range check that knows no minimum
out_of_range_NoMin(limit_microwatts, constraints) ==
    limit_microwatts > constraints.max_limit

\* limit_microwatts < constraints.min_limit || limit_microwatts > constraints.max_limit
out_of_range(limit_microwatts, constraints) ==
    limit_microwatts < constraints.min_limit \/ limit_microwatts > constraints.max_limit

\* What a call of apply_throttle_power comes to.  set is the argument of the
\* set_power_management_limit call if one was made, limit the device's power
\* limit afterwards.
ThrottleOutcome(result, set, limit) == [result |-> result, set |-> set, limit |-> limit]

\* Enforcer::apply_throttle_power.  nvml is "no_feature" for a build without
\* the gpu feature, "none" when Nvml::init failed, "some" otherwise;
\* constraints_ok and set_ok say whether the two NVML calls succeed.
apply_throttle_power(nvml, target, parameters, power_limit, constraints_ok, set_ok) ==
    IF nvml = "no_feature" THEN ThrottleOutcome("gpu_feature_not_enabled", <<>>, power_limit)
    ELSE IF nvml = "none" THEN ThrottleOutcome("nvml_not_available", <<>>, power_limit)
    ELSE IF FindDevice(target) = <<>> THEN ThrottleOutcome("device_not_found", <<>>, power_limit)
    ELSE IF "limit_watts" \notin DOMAIN parameters /\ "limit" \notin DOMAIN parameters
    THEN ThrottleOutcome("missing_parameter", <<>>, power_limit)
    ELSE LET device == FindDevice(target)[1]
             limit_val == IF "limit_watts" \in DOMAIN parameters
                          THEN parameters["limit_watts"] ELSE parameters["limit"]
         IN IF "number" \notin DOMAIN limit_val
            THEN ThrottleOutcome("not_a_number", <<>>, power_limit)
            ELSE LET limit_microwatts == limit_microwatts_of(limit_val.number)
                 IN IF ~constraints_ok
                    THEN ThrottleOutcome("constraints_failed", <<>>, power_limit)
                    ELSE IF out_of_range(limit_microwatts, NvmlDevices[device])
                    THEN ThrottleOutcome("out_of_range", <<>>, power_limit)
                    ELSE IF ~set_ok
                    THEN ThrottleOutcome("set_failed", <<limit_microwatts>>, power_limit)
                    ELSE ThrottleOutcome("ok", <<limit_microwatts>>,
                                         [power_limit EXCEPT ![device] = limit_microwatts])


\* ------------------------------------------------- config.rs and main.rs
\* Three settings stand for the three ways a setting travels: enable_cpu has a
\* flag with a mirrored environment variable and is a field of AgentConfig;
\* enforcement_mode is a field without a flag; the orchestrator switch has a
\* flag, and the field it feeds is an Option.  A level that does not give the
\* setting is <<>>.
ConfigSettings == {"enable_cpu", "enforcement_mode", "orchestrator"}

OptionOf(values) == {<<>>} \cup {<<v>> : v \in values}

EnforcementModes == {"Monitor", "Enforce"}

\* what one level can give: each setting given or not
LevelValues ==
    { [enable_cpu |-> c, enforcement_mode |-> m, orchestrator |-> o] :
        c \in OptionOf(BOOLEAN), m \in OptionOf(EnforcementModes), o \in OptionOf(BOOLEAN) }

\* AgentConfig::default()
DefaultConfig ==
    [enable_cpu |-> TRUE, enforcement_mode |-> "Monitor", orchestrator |-> <<>>]

\* settings that have a command-line flag (struct Cli)
HasFlag(setting) == setting \in {"enable_cpu", "orchestrator"}

\* What is given on the command line, in the ESNODE_ environment variables
\* and in the configuration file.
ConfigInputs ==
    { [flag |-> f, env |-> e, file |-> l] :
        f \in {x \in LevelValues : x.enforcement_mode = <<>>},
        e \in LevelValues, l \in LevelValues }

\* Cli::parse: #[arg(long, env = "ESNODE_...")] takes the flag, else the
\* environment variable
cli_parse(input) ==
    [s \in {x \in ConfigSettings : HasFlag(x)} |->
        IF input.flag[s] # <<>> THEN input.flag[s] ELSE input.env[s]]

\* One source of the config builder laid over what the earlier ones gave.  The
\* sources know the fields of AgentConfig: ESNODE_ENABLE_ORCHESTRATOR is no key
\* of it, the file's [orchestrator] table is.
add_source(config, source, is_env) ==
    [enable_cpu |-> IF source["enable_cpu"] # <<>> THEN source["enable_cpu"][1]
                    ELSE config.enable_cpu,
     enforcement_mode |-> IF source["enforcement_mode"] # <<>>
                          THEN source["enforcement_mode"][1] ELSE config.enforcement_mode,
     orchestrator |-> IF ~is_env /\ source["orchestrator"] # <<>>
                      THEN source["orchestrator"] ELSE config.orchestrator]

\* load_config: defaults, then Environment::with_prefix("ESNODE"), then the file
load_config(input) ==
    add_source(add_source(DefaultConfig, input.env, TRUE), input.file, FALSE)

\* cli_to_overrides
cli_to_overrides(cli) ==
    [enable_cpu |-> cli["enable_cpu"],
     enforcement_mode |-> <<>>,
     orchestrator |-> IF cli["orchestrator"] # <<>> /\ cli["orchestrator"][1]
                      THEN <<TRUE>> ELSE <<>>]

\* AgentConfig::apply_overrides
apply_overrides(config, overrides) ==
    [enable_cpu |-> IF overrides.enable_cpu # <<>> THEN overrides.enable_cpu[1]
                    ELSE config.enable_cpu,
     enforcement_mode |-> IF overrides.enforcement_mode # <<>>
                          THEN overrides.enforcement_mode[1] ELSE config.enforcement_mode,
     orchestrator |-> IF overrides.orchestrator # <<>> THEN overrides.orchestrator
                      ELSE config.orchestrator]

\* main: load_config, then the command-line overrides
EffectiveConfig(input) ==
    apply_overrides(load_config(input), cli_to_overrides(cli_parse(input)))


\* --------------------------------------------- lib.rs: local TSDB writes
\* ts_ms is the wall clock read at the start of a tick; it starts at
\* TsdbEpoch (the present, far above the write interval) and moves by one of
\* TsdbSteps from tick to tick: the clock can be set back.  TsdbInterval
\* stands for the 30_000 ms of the source.
TsdbEpoch == 10

TsdbSteps == {-1, 1, 2, 3}

\* a write interval that must be exceeded
tsdb_due_Strict(ts, last_write_ms) == ts - last_write_ms > TsdbInterval

\* ts_ms - last_tsdb_write_ms >= 30_000
tsdb_due(ts, last_write_ms) == ts - last_write_ms >= TsdbInterval


\* ------------------------------------- ESNODE-Orchestrator: features/thermal.rs
\* A device as check_thermals reads and writes it: temperature_celsius (an
\* Option, hundredths of a degree) and current_load (hundredths: 100 is 1.0).
OrchDeviceIds == {"cpu1", "cpu2"}

OrchTemperatures == {<<>>, <<3000>>, <<8500>>, <<9500>>}

OrchLoads == {0, 10, 60, 100}

OrchDevices ==
    [OrchDeviceIds -> [temperature_celsius : OrchTemperatures, current_load : OrchLoads]]

\* if let Some(temp) = device.temperature_celsius { if temp > 85.0 { hot } }
is_hot(device) ==
    device.temperature_celsius # <<>> /\ device.temperature_celsius[1] > 8500

\* the soft drain without its clamp
soft_drain_NoClamp(current_load) == current_load + 50

\* (dev.current_load + 0.5).min(1.0)
soft_drain(current_load) ==
    IF current_load + 50 < 100 THEN current_load + 50 ELSE 100

\* check_thermals: collect the hot devices, then raise the load of each
check_thermals(devices) ==
    LET hot_devices == {id \in DOMAIN devices : is_hot(devices[id])}
    IN [id \in DOMAIN devices |->
           IF id \in hot_devices
           THEN [devices[id] EXCEPT !.current_load = soft_drain(@)]
           ELSE devices[id]]


\* --------------------------------------------- collectors/network.rs: primary NIC
NicNames == {"lo", "eth0", "eth1"}

\* total_received / total_transmitted of the interfaces on a tick
NicReadings ==
    [NicNames -> [rx : {0, 1, 2}, tx : {0, 1}]]

\* self.system.networks() iterates a HashMap: any order of the interfaces
NicOrders ==
    {o \in [1..Cardinality(NicNames) -> NicNames] :
        \A i, j \in DOMAIN o : i # j => o[i] # o[j]}

\* NetworkSnapshot::default()
NoNetworkSnapshot == [rx |-> 0, tx |-> 0]

\* rx_delta and tx_delta of every interface against self.previous
NicDeltas(prev, reading) ==
    [n \in NicNames |-> [rx_delta |-> saturating_sub(reading[n].rx, prev[n].rx),
                         tx_delta |-> saturating_sub(reading[n].tx, prev[n].tx)]]

\* best_iface.as_ref().map(|b| b.1.saturating_add(b.2)).unwrap_or(0)
best_score(best) ==
    IF best = <<>> THEN 0 ELSE best[1].rx_delta + best[1].tx_delta

\* the body of the loop for one interface: if iface != "lo" and its score is
\* above the best so far, it becomes best_iface
consider(best, iface, delta) ==
    IF iface # "lo" /\ delta.rx_delta + delta.tx_delta > best_score(best)
    THEN <<[iface |-> iface, rx_delta |-> delta.rx_delta, tx_delta |-> delta.tx_delta]>>
    ELSE best

RECURSIVE select_best(_, _, _)
\* for (iface, data) in self.system.networks() { ... }, from best_iface = best
select_best(best, order, deltas) ==
    IF order = <<>> THEN best
    ELSE select_best(consider(best, Head(order), deltas[Head(order)]), Tail(order), deltas)


\* ------------------------------------------------ esnode-mqtt: topic_matches
\* Topic strings are sequences of one-character strings; a level is one of
\* these characters.
TopicLevels == {"a", "b"}

PatternLevels == TopicLevels \cup {"+", "#"}

LevelLists(levels) == UNION {[1..n -> levels] : n \in 1..MaxLevels}

RECURSIVE JoinSlash(_)
\* the levels written out with '/' between them
JoinSlash(levels) ==
    IF Len(levels) = 1 THEN <<levels[1]>>
    ELSE <<levels[1], "/">> \o JoinSlash(Tail(levels))

MqttPatterns == {JoinSlash(l) : l \in LevelLists(PatternLevels)}

MqttTopics == {JoinSlash(l) : l \in LevelLists(TopicLevels)}

RECURSIVE split_slash(_)
\* str::split('/'): the parts between the separators, at least one part
split_slash(text) ==
    LET cut == {i \in 1..Len(text) : text[i] = "/"} IN
    IF cut = {} THEN <<text>>
    ELSE LET first == CHOOSE i \in cut : \A j \in cut : i <= j
         IN <<SubSeq(text, 1, first - 1)>> \o split_slash(SubSeq(text, first + 1, Len(text)))

\* pattern.contains('#')
contains_hash(pattern) == \E i \in 1..Len(pattern) : pattern[i] = "#"

RECURSIVE match_from(_, _, _)
\* for (i, pattern_part) in pattern_parts.iter().enumerate() { ... } true
match_from(i, pattern_parts, topic_parts) ==
    IF i > Len(pattern_parts) THEN TRUE
    ELSE IF pattern_parts[i] = <<"#">> THEN TRUE
    ELSE IF pattern_parts[i] = <<"+">> THEN match_from(i + 1, pattern_parts, topic_parts)
    ELSE IF i > Len(topic_parts) \/ pattern_parts[i] # topic_parts[i] THEN FALSE
    ELSE match_from(i + 1, pattern_parts, topic_parts)

\* MqttDriver::topic_matches
topic_matches(pattern, topic) ==
    LET pattern_parts == split_slash(pattern)
        topic_parts == split_slash(topic)
    IN IF Len(pattern_parts) # Len(topic_parts) /\ ~contains_hash(pattern)
       THEN FALSE
       ELSE match_from(1, pattern_parts, topic_parts)


\* ------------------------------------- agent-bin: config set, metric sets
\* The configuration file as the edit commands see it: for each setting the
\* value the file gives (an Option: <<>> when the file does not name it).
\* tags is the file's [tags] table, drivers its [[drivers]] array.
EditBools == {"enable_cpu", "enable_memory", "enable_gpu"}

ConfigFiles ==
    { [tags |-> t, enable_cpu |-> c, enable_memory |-> m, enable_gpu |-> g, drivers |-> d] :
        t \in {<<>>, <<"env=prod">>}, c \in OptionOf(BOOLEAN), m \in OptionOf(BOOLEAN),
        g \in OptionOf(BOOLEAN), d \in {<<>>, <<(<<"modbus">>)>>} }

\* AgentConfig::default()
DefaultAgentConfig ==
    [tags |-> "env=dev", enable_cpu |-> TRUE, enable_memory |-> TRUE, enable_gpu |-> TRUE,
     drivers |-> <<>>]

\* load_config_file: the file deserialized as ConfigOverrides, a struct with
\* no tags and no drivers field (unknown keys are ignored)
load_config_file(file) ==
    [enable_cpu |-> file.enable_cpu, enable_memory |-> file.enable_memory,
     enable_gpu |-> file.enable_gpu]

\* AgentConfig::apply_overrides on the settings of the edit commands
apply_file_overrides(config, overrides) ==
    [config EXCEPT
        !.enable_cpu = IF overrides.enable_cpu # <<>> THEN overrides.enable_cpu[1] ELSE @,
        !.enable_memory = IF overrides.enable_memory # <<>> THEN overrides.enable_memory[1]
                          ELSE @,
        !.enable_gpu = IF overrides.enable_gpu # <<>> THEN overrides.enable_gpu[1] ELSE @]

\* let mut config = AgentConfig::default(); if path.exists() { ... }
config_from_file(file) ==
    IF file = <<>> THEN DefaultAgentConfig
    ELSE apply_file_overrides(DefaultAgentConfig, load_config_file(file[1]))

\* str::parse::<bool>
parse_bool(val) ==
    IF val = "true" THEN <<TRUE>> ELSE IF val = "false" THEN <<FALSE>> ELSE <<>>

\* apply_config_kv: Ok(config) as <<config>>, Err as <<>>
apply_config_kv(config, key, val) ==
    IF key \in EditBools /\ parse_bool(val) # <<>>
    THEN <<[config EXCEPT ![key] = parse_bool(val)[1]]>>
    ELSE <<>>

MetricSets == {"Host", "Gpu", "All"}

\* the enable flags that belong to a metric set
FlagsOf(set) ==
    CASE set = "Host" -> {"enable_cpu", "enable_memory"}
      [] set = "Gpu" -> {"enable_gpu"}
      [] OTHER -> EditBools

\* the match on the metric set in command_toggle_metric_set
toggle_metric_set(config, set, enable) ==
    [k \in DOMAIN config |-> IF k \in FlagsOf(set) THEN enable ELSE config[k]]

\* persist_config: the whole AgentConfig serialized over the file
persist_config(config) ==
    <<[tags |-> <<config.tags>>, enable_cpu |-> <<config.enable_cpu>>,
       enable_memory |-> <<config.enable_memory>>, enable_gpu |-> <<config.enable_gpu>>,
       drivers |-> <<config.drivers>>]>>


\* --------------------------------------- esnode-mqtt: the readings buffer
\* A buffer that is never cut back.
limit_buffer_NoDrain(buf) == buf

\* if buf.len() > 1000 { buf.drain(0..500); }, with the 1000 and the 500
\* scaled to BufferLimit and DrainCount
limit_buffer(buf) ==
    IF Len(buf) > BufferLimit THEN SubSeq(buf, DrainCount + 1, Len(buf)) ELSE buf

\* buffer.drain(..).collect(): [readings, buffer]
drain_all(buf) == [readings |-> buf, buffer |-> <<>>]

\* the elements of a sequence
Elements(seq) == {seq[i] : i \in 1..Len(seq)}

VARIABLES
    now,            \* the clock
    next_tick,      \* deadline of the collection ticker
    cpc,            \* collection task: "idle" | "call" | "await" | "post"
    cidx,           \* index of the collector the tick is at
    all_ok,         \* the tick's all_ok flag
    ts_ms,          \* the tick's now_ms
    tick_no,        \* number of ticks started
    active,         \* collector -> number of collect calls in progress
    invoked,        \* collectors invoked in the current tick
    tick_errs,      \* collectors that returned Err in the current tick
    healthy,        \* Arc<AtomicBool> shared with StatusState
    last_errors,    \* StatusState.last_errors
    last_scrape,    \* StatusState.last_scrape_unix_ms
    host,           \* StatusState.host, tagged by the tick that wrote it
    gpu_status,     \* StatusState.gpu_status: [tick, gpus]
    errors_total,   \* agent_errors_total{collector}
    recorded,       \* every error ever passed to record_error, in order
    post_states,    \* the status contents as they were at the end of each tick
    hpc,            \* /status handler: position inside snapshot()
    resp,           \* the StatusSnapshot the handler is building
    next_enforce,   \* deadline of the enforcement ticker
    mode,           \* config.enforcement_mode
    last_actions,   \* FlapDampener.last_actions: (policy, target) -> instant
    violations_total,   \* policy_violations_total{policy, target, outcome}
    enforced_total,     \* policy_enforced_total{policy, target, result}
    etick,          \* what the last enforcement tick saw and did
    applied_at,     \* (policy, target) -> time of the last successful action
    dlog,           \* every record_action call: (policy, target, time)
    cli_pc,         \* esnode-core plan: "start" | "done"
    cli_profile,    \* the profile the command parsed
    cli_gpus,       \* status.gpus as the command fetched them
    cli_result,     \* result.matched_policies
    cli_case,       \* how the condition of the profile's rule was put together
    previous,       \* per counter: the source value the collector saw last (Option)
    exported,       \* per counter: the value of the registry counter
    src_last,       \* per counter: the last source reading (Option)
    src_peak,       \* per counter: the highest source reading so far
    sampled,        \* the counters the last collect call read
    samples,        \* number of collect calls made
    drivers,        \* ProtocolRunner.drivers: [kind, conn] each; <<>> before new()
    iot_sensor_value,   \* label sets of iot_sensor_value that have been set
    app,            \* AppCollector: [warned, last_tokens]
    dtick,          \* what the last tick over the app collector and the runner met
    it_power_sources,\* PueCalculator.it_power_sources
    facility_power_sources,\* PueCalculator.facility_power_sources
    pue_gauges,     \* the pue_* gauges of the registry; <<>> before the first collect
    pue_reports,    \* every update_*_power call so far, in order
    pue_seen,       \* number of update calls made before the last collect
    rca_window,     \* RcaEngine.window: [capacity, samples]; <<>> before new()
    rca_events,     \* the events the tick's analyze call returned
    rca_adds,       \* number of add_snapshot calls made
    rca_interval,   \* the scrape interval the engine was built with
    risk_history,   \* FailureRiskPredictor.history: uuid -> GpuHistory
    risk_results,   \* what the last analyze call returned: uuid -> RiskAssessment
    risk_now,       \* the instant of the last analyze call
    risk_log,       \* every analyze call so far: [ts, gpus]
    risk_gauge,         \* gpu_failure_risk_score: uuid -> the value last set
    enforcer_nvml,  \* Enforcer.nvml: "new" before Enforcer::new, then no_feature | none | some
    power_limit,    \* per device: the power management limit set on it
    throttle,       \* the last apply_throttle_power call: its request and what it came to
    cfg_pc,         \* main: "start" | "loaded"
    cfg_input,      \* what the three levels gave
    agent_config,     \* the AgentConfig main ends up with
    tsdb,           \* tsdb_for_collection: "new" before Agent::new, then "some" | "none"
    wall_ms,        \* the wall clock at the start of the last tick
    last_tsdb_write_ms,\* the collection task's last_tsdb_write_ms
    tsdb_ticks,     \* the ts_ms of every tick so far
    tsdb_writes,    \* every write_samples call: [tick, ts, ok]
    orch_devices,   \* Orchestrator.devices: id -> Device; <<>> before new()
    thermal_before, \* the devices as the last check_thermals call found them (Option)
    thermal_ticks,  \* number of check_thermals calls made, up to 2
    nic_previous,   \* NetworkCollector.previous: interface -> rx, tx
    nic_deltas,     \* the deltas of the last collect call (<<>> before the first)
    primary_nic,    \* the interface handed to set_network_summary (Option)
    nic_ticks,      \* number of collect calls made
    mqtt_pattern,   \* the pattern of the last topic_matches call
    mqtt_topic,     \* its topic
    mqtt_matched,   \* its result: "none" before the call, then TRUE or FALSE as a string
    edit_pc,        \* "start", then "file" once the file is in its initial state
    config_file,    \* the configuration file (Option: <<>> when it does not exist)
    file_before,    \* the file as the last edit command found it
    last_edit,      \* the last edit command: what it named, and whether it wrote
    edits,          \* number of edit commands run
    readings_buffer,\* MqttDriver.readings_buffer: the readings, oldest first, named by arrival number
    buffer_lock,    \* who holds the buffer's Mutex: "free", "receiver" or "reader"
    receiver_pc,    \* the receiver task: "poll", "locked" (before push), "pushed" (before the length check)
    received,       \* number of readings the receiver has pushed
    discarded,      \* the readings buf.drain(0..500) has thrown away
    delivered,      \* everything read_all has returned, call after call
    last_read,      \* the last read_all call: the buffer it found and what it returned
    read_calls      \* number of read_all calls completed

collect_vars == <<next_tick, cpc, cidx, all_ok, ts_ms, tick_no, active, invoked, tick_errs>>

status_vars == <<healthy, last_errors, last_scrape, host, gpu_status>>

http_vars == <<hpc, resp>>

enforce_vars == <<next_enforce, mode, last_actions, violations_total, enforced_total,
                  etick, applied_at, dlog>>

plan_vars == <<cli_pc, cli_profile, cli_gpus, cli_result, cli_case>>

\* The state of the components that are also driven on their own.
delta_vars == <<previous, exported, src_last, src_peak, sampled, samples>>

driver_vars == <<drivers, iot_sensor_value, app, dtick>>

\* The agent proper: the clock, the scheduler, the status and the enforcement.
agent_vars == <<now, collect_vars, status_vars, errors_total, recorded, post_states,
                http_vars, enforce_vars>>

pue_vars == <<it_power_sources, facility_power_sources, pue_gauges, pue_reports, pue_seen>>

rca_vars == <<rca_window, rca_events, rca_adds, rca_interval>>

risk_vars == <<risk_history, risk_results, risk_now, risk_log, risk_gauge>>

throttle_vars == <<enforcer_nvml, power_limit, throttle>>

config_vars == <<cfg_pc, cfg_input, agent_config>>

tsdb_vars == <<tsdb, wall_ms, last_tsdb_write_ms, tsdb_ticks, tsdb_writes>>

thermal_vars == <<orch_devices, thermal_before, thermal_ticks>>

nic_vars == <<nic_previous, nic_deltas, primary_nic, nic_ticks>>

topic_vars == <<mqtt_pattern, mqtt_topic, mqtt_matched>>

edit_vars == <<edit_pc, config_file, file_before, last_edit, edits>>

mqtt_vars == <<readings_buffer, buffer_lock, receiver_pc, received, discarded, delivered, last_read, read_calls>>

analysis_vars == <<pue_vars, rca_vars, risk_vars, throttle_vars, config_vars, tsdb_vars, thermal_vars, nic_vars, topic_vars, edit_vars, mqtt_vars>>

component_vars == <<plan_vars, delta_vars, driver_vars, analysis_vars>>

outside_pue == <<agent_vars, plan_vars, delta_vars, driver_vars, rca_vars, risk_vars, throttle_vars, config_vars, tsdb_vars, thermal_vars, nic_vars, topic_vars, edit_vars, mqtt_vars>>

outside_rca == <<agent_vars, plan_vars, delta_vars, driver_vars, pue_vars, risk_vars, throttle_vars, config_vars, tsdb_vars, thermal_vars, nic_vars, topic_vars, edit_vars, mqtt_vars>>

outside_risk == <<agent_vars, plan_vars, delta_vars, driver_vars, pue_vars, rca_vars, throttle_vars, config_vars, tsdb_vars, thermal_vars, nic_vars, topic_vars, edit_vars, mqtt_vars>>

outside_throttle == <<agent_vars, plan_vars, delta_vars, driver_vars, pue_vars, rca_vars, risk_vars, config_vars, tsdb_vars, thermal_vars, nic_vars, topic_vars, edit_vars, mqtt_vars>>

outside_config == <<agent_vars, plan_vars, delta_vars, driver_vars, pue_vars, rca_vars, risk_vars, throttle_vars, tsdb_vars, thermal_vars, nic_vars, topic_vars, edit_vars, mqtt_vars>>

outside_tsdb == <<agent_vars, plan_vars, delta_vars, driver_vars, pue_vars, rca_vars, risk_vars, throttle_vars, config_vars, thermal_vars, nic_vars, topic_vars, edit_vars, mqtt_vars>>

outside_thermal == <<agent_vars, plan_vars, delta_vars, driver_vars, pue_vars, rca_vars, risk_vars, throttle_vars, config_vars, tsdb_vars, nic_vars, topic_vars, edit_vars, mqtt_vars>>

outside_nic == <<agent_vars, plan_vars, delta_vars, driver_vars, pue_vars, rca_vars, risk_vars, throttle_vars, config_vars, tsdb_vars, thermal_vars, topic_vars, edit_vars, mqtt_vars>>

outside_topic == <<agent_vars, plan_vars, delta_vars, driver_vars, pue_vars, rca_vars, risk_vars, throttle_vars, config_vars, tsdb_vars, thermal_vars, nic_vars, edit_vars, mqtt_vars>>

outside_edit == <<agent_vars, plan_vars, delta_vars, driver_vars, pue_vars, rca_vars, risk_vars, throttle_vars, config_vars, tsdb_vars, thermal_vars, nic_vars, topic_vars, mqtt_vars>>

outside_mqtt == <<agent_vars, plan_vars, delta_vars, driver_vars, pue_vars, rca_vars, risk_vars, throttle_vars, config_vars, tsdb_vars, thermal_vars, nic_vars, topic_vars, edit_vars>>

\* ----------------------------------------------------------- control.rs
\* HashMap::get as an Option: <<>> is None, <<v>> is Some(v).
MapGet(m, k) == IF k \in DOMAIN m THEN <<m[k]>> ELSE <<>>

\* HashMap::insert
MapInsert(m, k, v) == [q \in DOMAIN m \cup {k} |-> IF q = k THEN v ELSE m[q]]

\* CounterVec::with_label_values(labels).inc()
CounterInc(cv, labels) ==
    [q \in DOMAIN cv \cup {labels} |->
        IF q = labels THEN (IF labels \in DOMAIN cv THEN cv[labels] + 1 ELSE 1) ELSE cv[q]]

CounterValue(cv, labels) == IF labels \in DOMAIN cv THEN cv[labels] ELSE 0

\* A dampener that never blocks.
can_apply_Always(la, policy, target, t) == TRUE

\* A dampener that still blocks when exactly the interval has elapsed.
can_apply_Strict(la, policy, target, t) ==
    LET last == MapGet(la, <<policy, target>>) IN
    IF last # <<>> /\ t - last[1] <= DampeningInterval THEN FALSE ELSE TRUE

\* FlapDampener::can_apply at instant t
can_apply(la, policy, target, t) ==
    LET last == MapGet(la, <<policy, target>>) IN
    IF last # <<>> /\ t - last[1] < DampeningInterval THEN FALSE ELSE TRUE

\* A record_action that keeps the first instant of a pair.
record_action_KeepFirst(la, policy, target, t) ==
    IF <<policy, target>> \in DOMAIN la THEN la ELSE MapInsert(la, <<policy, target>>, t)

\* FlapDampener::record_action at instant t
record_action(la, policy, target, t) == MapInsert(la, <<policy, target>>, t)

\* Enforcer::apply_action: Ok (TRUE) or Err (FALSE).  throttle_power depends
\* on the device (NVML present, device found, limit in range); the other
\* action types return Ok.
apply_action(target_resource, action, devices_ok) ==
    IF action.action_type = "throttle_power"
    THEN target_resource \in devices_ok
    ELSE TRUE

\* profile.policies.iter().find(|p| p.name == v.policy_name)
FindPolicy(policies, name) ==
    LET hits == {i \in 1..Len(policies) : policies[i].name = name} IN
    IF hits = {} THEN <<>>
    ELSE <<policies[CHOOSE i \in hits : \A j \in hits : i <= j]>>

\* --------------------------------------------------- enforcement task
NoEnforceTick ==
    [n |-> 0, time |-> 0, loaded |-> FALSE, after_failure |-> FALSE, plan |-> <<>>,
     pre |-> <<>>, trace |-> <<>>]

TraceEntry(v, outcome, action) ==
    [policy_name |-> v.policy_name, target_resource |-> v.target_resource,
     outcome |-> outcome, action |-> action]

\* The loop's state: dampener, the two counter families, and the record of
\* what was done for each violation.
LoopState(la, viol, enf, trace) ==
    [la |-> la, viol |-> viol, enf |-> enf, trace |-> trace]

\* An Ok arm that does not arm the dampener.
OnApplyOk_NoRecord(st, v, action, t) ==
    [st EXCEPT !.enf = CounterInc(@, <<v.policy_name, v.target_resource, "success">>),
               !.trace = Append(@, TraceEntry(v, "success", action))]

\* Ok(msg) arm of the match on apply_action
OnApplyOk(st, v, action, t) ==
    [st EXCEPT !.la = record_action(@, v.policy_name, v.target_resource, t),
               !.enf = CounterInc(@, <<v.policy_name, v.target_resource, "success">>),
               !.trace = Append(@, TraceEntry(v, "success", action))]

\* An Err arm that arms the dampener all the same.
OnApplyErr_Arms(st, v, action, t) ==
    [st EXCEPT !.la = record_action(@, v.policy_name, v.target_resource, t),
               !.enf = CounterInc(@, <<v.policy_name, v.target_resource, "failure">>),
               !.trace = Append(@, TraceEntry(v, "failure", action))]

\* Err(e) arm of the match on apply_action
OnApplyErr(st, v, action, t) ==
    [st EXCEPT !.enf = CounterInc(@, <<v.policy_name, v.target_resource, "failure">>),
               !.trace = Append(@, TraceEntry(v, "failure", action))]

\* The Enforce-mode part of the loop body for one violation.
EnforceOne(st, v, profile, t, devices_ok) ==
    IF ~can_apply(st.la, v.policy_name, v.target_resource, t)
    THEN [st EXCEPT !.trace = Append(@, TraceEntry(v, "dampened", <<>>))]
    ELSE LET found == FindPolicy(profile.policies, v.policy_name) IN
         IF found = <<>>
         THEN [st EXCEPT !.trace = Append(@, TraceEntry(v, "no_policy", <<>>))]
         ELSE IF apply_action(v.target_resource, found[1].action, devices_ok)
              THEN OnApplyOk(st, v, found[1].action, t)
              ELSE OnApplyErr(st, v, found[1].action, t)

\* A loop body that counts a violation only when it is not dampened.
OnViolation_CountLate(st, v, profile, t, devices_ok) ==
    IF mode = "Enforce"
    THEN IF ~can_apply(st.la, v.policy_name, v.target_resource, t)
         THEN [st EXCEPT !.trace = Append(@, TraceEntry(v, "dampened", <<>>))]
         ELSE EnforceOne([st EXCEPT !.viol = CounterInc(@, <<v.policy_name,
                              v.target_resource, "violation">>)], v, profile, t, devices_ok)
    ELSE [st EXCEPT !.viol = CounterInc(@, <<v.policy_name, v.target_resource, "violation">>),
                    !.trace = Append(@, TraceEntry(v, "monitored", <<>>))]

\* A loop body that enforces whatever the mode is.
OnViolation_AnyMode(st, v, profile, t, devices_ok) ==
    EnforceOne([st EXCEPT !.viol = CounterInc(@, <<v.policy_name, v.target_resource,
                                                   "violation">>)], v, profile, t, devices_ok)

\* The loop body for one violation.
OnViolation(st, v, profile, t, devices_ok) ==
    LET counted == [st EXCEPT !.viol = CounterInc(@, <<v.policy_name, v.target_resource,
                                                       "violation">>)]
    IN IF mode = "Enforce"
       THEN EnforceOne(counted, v, profile, t, devices_ok)
       ELSE [counted EXCEPT !.trace = Append(@, TraceEntry(v, "monitored", <<>>))]

RECURSIVE EnforceLoop(_, _, _, _, _)
\* for v in &violations { ... }: the loop state after the body has run for
\* each violation in turn.
EnforceLoop(st, violations, profile, t, devices_ok) ==
    IF violations = <<>> THEN st
    ELSE CHOOSE final \in
           { EnforceLoop(st1, rest, profile, t, devices_ok) :
               st1 \in {OnViolation(st, Head(violations), profile, t, devices_ok)},
               rest \in {Tail(violations)} } : TRUE

\* A failed load that still counts an enforcement failure.
OnLoadErr_Counts(st) ==
    [st EXCEPT !.enf = CounterInc(@, <<"profile", "load", "failure">>)]

\* Err(e) arms of read_to_string and serde_yaml::from_str: warn and continue
OnLoadErr(st) == st

\* plan.matched_policies filtered by status == Violated
Violations(entries) ==
    LET IsViolated(e) == e.status = "Violated" IN SelectSeq(entries, IsViolated)

\* (policy, target) pairs of the trace entries with the given outcome
PairsWith(trace, outcome) ==
    {<<trace[i].policy_name, trace[i].target_resource>> :
        i \in {j \in 1..Len(trace) : trace[j].outcome = outcome}}

\* One pass of the enforcement loop: load the profile, plan against a
\* snapshot, and handle every violation.
EnforceTick ==
    /\ now >= next_enforce
    /\ next_enforce' = next_enforce + EnforcementInterval
    /\ \E load \in ProfileLoads, devices_ok \in SUBSET {TargetResource(g) : g \in
                                                       {[uuid |-> GpuUuids[i]] : i \in 1..Len(GpuUuids)}} :
         IF ~load.ok
         THEN \E st \in {OnLoadErr(LoopState(last_actions, violations_total, enforced_total,
                                             <<>>))} :
                 /\ last_actions' = st.la
                 /\ violations_total' = st.viol
                 /\ enforced_total' = st.enf
                 /\ etick' = [NoEnforceTick EXCEPT !.n = etick.n + 1, !.time = now,
                                 !.after_failure = (etick.n > 0 /\ ~etick.loaded),
                                 !.pre = last_actions, !.trace = st.trace]
                 /\ UNCHANGED <<applied_at, dlog>>
         ELSE \E entries \in {plan(load.profile, gpu_status.gpus)} :
              \E st \in {EnforceLoop(LoopState(last_actions, violations_total, enforced_total,
                                               <<>>),
                                     Violations(entries), load.profile, now, devices_ok)} :
              \E succeeded \in {PairsWith(st.trace, "success")} :
                 /\ last_actions' = st.la
                 /\ violations_total' = st.viol
                 /\ enforced_total' = st.enf
                 /\ etick' = [n |-> etick.n + 1, time |-> now, loaded |-> TRUE,
                              after_failure |-> (etick.n > 0 /\ ~etick.loaded),
                              plan |-> entries, pre |-> last_actions, trace |-> st.trace]
                 /\ applied_at' = [q \in DOMAIN applied_at \cup succeeded |->
                                      IF q \in succeeded THEN now ELSE applied_at[q]]
                 /\ dlog' = dlog \cup {<<q, now>> : q \in {r \in DOMAIN st.la :
                                          r \notin DOMAIN last_actions \/ st.la[r] # last_actions[r]}}
    /\ UNCHANGED <<mode, now, collect_vars, status_vars, errors_total, recorded, post_states, http_vars, component_vars>>



\* ----------------------------------------------------------- StatusState
CollectorError(collector, message, unix_ms) ==
    [collector |-> collector, message |-> message, unix_ms |-> unix_ms]

\* record_error that keeps the first entries instead of the most recent ones.
record_error_truncate(ring, collector, message, unix_ms) ==
    LET pushed == Append(ring, CollectorError(collector, message, unix_ms))
    IN IF Len(pushed) > ErrorRingCap THEN SubSeq(pushed, 1, ErrorRingCap) ELSE pushed

\* StatusState::record_error: push, then drop the oldest beyond the capacity.
record_error(ring, collector, message, unix_ms) ==
    LET pushed == Append(ring, CollectorError(collector, message, unix_ms))
    IN IF Len(pushed) > ErrorRingCap THEN Tail(pushed) ELSE pushed

\* MetricsRegistry::inc_error
inc_error(counters, collector) ==
    [counters EXCEPT ![collector] = @ + 1]

\* The contents of the status state a deep copy would carry.
StatusContents ==
    [healthy |-> healthy, last_scrape |-> last_scrape, last_errors |-> last_errors,
     host |-> host, gpus |-> gpu_status]

EmptySnapshot ==
    [healthy |-> FALSE, last_scrape |-> 0, last_errors |-> <<>>,
     host |-> 0, gpus |-> [tick |-> 0, gpus |-> <<>>]]

\* ------------------------------------------------------- collection task
\* A ticker that fires on its deadline whether or not the previous tick is over.
TickReady_NoWait == now >= next_tick

\* ticker.tick().await: completes once the deadline is reached; the task
\* awaits it only between two ticks.
TickReady == cpc = "idle" /\ now >= next_tick

TickStart ==
    /\ TickReady
    /\ cpc' = "call"
    /\ cidx' = 1
    /\ all_ok' = TRUE
    /\ ts_ms' = now
    /\ tick_no' = tick_no + 1
    /\ next_tick' = next_tick + ScrapeInterval
    /\ invoked' = {}
    /\ tick_errs' = {}
    /\ UNCHANGED <<now, active, status_vars, errors_total, recorded, post_states, http_vars, enforce_vars, component_vars>>

\* collector.collect(&metrics).await is entered.
CollectStart ==
    /\ cpc = "call"
    /\ cpc' = "await"
    /\ active' = [active EXCEPT ![Collectors[cidx]] = @ + 1]
    /\ invoked' = invoked \cup {Collectors[cidx]}
    /\ UNCHANGED <<now, next_tick, cidx, all_ok, ts_ms, tick_no, tick_errs,
                   status_vars, errors_total, recorded, post_states, http_vars, enforce_vars, component_vars>>

\* What a collect call that returns Ok leaves in the status state.
Publish(c, reading) ==
    /\ host' = IF c = "cpu" THEN tick_no ELSE host
    /\ gpu_status' = IF c = "gpu" THEN [tick |-> tick_no, gpus |-> reading] ELSE gpu_status

\* The scheduler's handling of the value collect returned.
OnCollectOk(c) ==
    /\ UNCHANGED <<all_ok, errors_total, last_errors>>

\* An error branch that forgets to clear the tick's flag.
OnCollectErr_KeepsFlag(c, msg) ==
    /\ errors_total' = inc_error(errors_total, c)
    /\ last_errors' = record_error(last_errors, c, msg, ts_ms)
    /\ UNCHANGED all_ok

OnCollectErr(c, msg) ==
    /\ errors_total' = inc_error(errors_total, c)
    /\ last_errors' = record_error(last_errors, c, msg, ts_ms)
    /\ all_ok' = FALSE

\* A loop that leaves at the first collector error.
AfterCollect_Break(ok) ==
    /\ cidx' = IF ok THEN cidx + 1 ELSE Len(Collectors) + 1
    /\ cpc' = IF ok /\ cidx + 1 <= Len(Collectors) THEN "call" ELSE "post"

\* Where the for loop goes once a collect call has returned.
AfterCollect(ok) ==
    /\ cidx' = cidx + 1
    /\ cpc' = IF cidx + 1 > Len(Collectors) THEN "post" ELSE "call"

\* collector.collect(&metrics).await returns.
CollectFinish ==
    /\ cpc = "await"
    /\ LET c == Collectors[cidx] IN
         /\ active' = [active EXCEPT ![c] = @ - 1]
         /\ \/ \E reading \in GpuReadings :
                 /\ Publish(c, reading)
                 /\ OnCollectOk(c)
                 /\ AfterCollect(TRUE)
                 /\ UNCHANGED <<tick_errs, recorded>>
            \/ \E msg \in ErrMessages :
                 /\ UNCHANGED <<host, gpu_status>>
                 /\ OnCollectErr(c, msg)
                 /\ AfterCollect(FALSE)
                 /\ tick_errs' = tick_errs \cup {c}
                 /\ recorded' = Append(recorded, CollectorError(c, msg, ts_ms))
    /\ UNCHANGED <<now, next_tick, ts_ms, tick_no, invoked, healthy, last_scrape,
                   post_states, http_vars, enforce_vars, component_vars>>

\* What the tick stores into the healthy flag.
HealthyAfterTick == all_ok

\* set_last_scrape, healthy.store(all_ok) and the end of the loop body.
TickEnd ==
    /\ cpc = "post"
    /\ last_scrape' = ts_ms
    /\ healthy' = HealthyAfterTick
    /\ cpc' = "idle"
    /\ post_states' = post_states \cup
          {[StatusContents EXCEPT !.healthy = healthy', !.last_scrape = last_scrape']}
    /\ UNCHANGED <<now, next_tick, cidx, all_ok, ts_ms, tick_no, active, invoked, tick_errs,
                   last_errors, host, gpu_status, errors_total, recorded, http_vars, enforce_vars,
                   component_vars>>

\* The clock advances, also while a collect call is suspended.
AdvanceTime ==
    /\ now < MaxTime
    /\ now' = now + 1
    /\ UNCHANGED <<collect_vars, status_vars, errors_total, recorded, post_states, http_vars, enforce_vars, component_vars>>

vars == <<now, collect_vars, status_vars, errors_total, recorded, post_states, http_vars,
          enforce_vars, component_vars>>

Init ==
    /\ now = 0
    /\ next_tick = 0
    /\ cpc = "idle"
    /\ cidx = 1
    /\ all_ok = TRUE
    /\ ts_ms = 0
    /\ tick_no = 0
    /\ active = [c \in CollectorNames |-> 0]
    /\ invoked = {}
    /\ tick_errs = {}
    /\ healthy = TRUE
    /\ last_errors = <<>>
    /\ last_scrape = 0
    /\ host = 0
    /\ gpu_status = [tick |-> 0, gpus |-> <<>>]
    /\ errors_total = [c \in CollectorNames |-> 0]
    /\ recorded = <<>>
    /\ post_states = {[healthy |-> TRUE, last_scrape |-> 0, last_errors |-> <<>>,
                       host |-> 0, gpus |-> [tick |-> 0, gpus |-> <<>>]]}
    /\ hpc = "idle"
    /\ resp = EmptySnapshot
    /\ next_enforce = EnforcementInterval
    /\ mode \in {"Monitor", "Enforce"}
    /\ last_actions = <<>>
    /\ violations_total = <<>>
    /\ enforced_total = <<>>
    /\ etick = NoEnforceTick
    /\ applied_at = <<>>
    /\ dlog = {}
    /\ cli_pc = "start"
    /\ cli_profile = [policies |-> <<>>]
    /\ cli_gpus = <<>>
    /\ cli_result = <<>>
    /\ cli_case = [kind |-> "none"]
    /\ previous = [f \in DeltaFamilies |-> <<>>]
    /\ exported = [f \in DeltaFamilies |-> 0]
    /\ src_last = [f \in DeltaFamilies |-> <<>>]
    /\ src_peak = [f \in DeltaFamilies |-> 0]
    /\ sampled = {}
    /\ samples = 0
    /\ drivers = <<>>
    /\ iot_sensor_value = {}
    /\ app = [warned |-> FALSE, last_tokens |-> <<>>]
    /\ dtick = [ran |-> FALSE, app |-> "none", log |-> <<>>]
    /\ it_power_sources = <<>>
    /\ facility_power_sources = <<>>
    /\ pue_gauges = <<>>
    /\ pue_reports = <<>>
    /\ pue_seen = 0
    /\ rca_window = <<>>
    /\ rca_events = <<>>
    /\ rca_adds = 0
    /\ rca_interval = 0
    /\ risk_history = <<>>
    /\ risk_results = <<>>
    /\ risk_now = 0
    /\ risk_log = <<>>
    /\ risk_gauge = <<>>
    /\ enforcer_nvml = "new"
    /\ power_limit = [d \in 1..Len(NvmlDevices) |-> NvmlDevices[d].max_limit]
    /\ throttle = <<>>
    /\ cfg_pc = "start"
    /\ cfg_input = <<>>
    /\ agent_config = DefaultConfig
    /\ tsdb = "new"
    /\ wall_ms = TsdbEpoch
    /\ last_tsdb_write_ms = 0
    /\ tsdb_ticks = <<>>
    /\ tsdb_writes = <<>>
    /\ orch_devices = <<>>
    /\ thermal_before = <<>>
    /\ thermal_ticks = 0
    /\ nic_previous = [n \in NicNames |-> NoNetworkSnapshot]
    /\ nic_deltas = <<>>
    /\ primary_nic = <<>>
    /\ nic_ticks = 0
    /\ mqtt_pattern = <<>>
    /\ mqtt_topic = <<>>
    /\ mqtt_matched = "none"
    /\ edit_pc = "start"
    /\ config_file = <<>>
    /\ file_before = <<>>
    /\ last_edit = [command |-> "none", named |-> {}, wrote |-> FALSE]
    /\ edits = 0
    /\ readings_buffer = <<>>
    /\ buffer_lock = "free"
    /\ receiver_pc = "poll"
    /\ received = 0
    /\ discarded = {}
    /\ delivered = <<>>
    /\ last_read = <<>>
    /\ read_calls = 0

NextCollect ==
    \/ TickStart
    \/ CollectStart
    \/ CollectFinish
    \/ TickEnd
    \/ AdvanceTime

SpecCollect == Init /\ [][NextCollect]_vars

\* The runtime keeps scheduling the collection task, every collect call
\* returns (its I/O carries bounded timeouts), and the clock advances.
FairCollect ==
    /\ SpecCollect
    /\ WF_vars(TickStart)
    /\ WF_vars(CollectStart)
    /\ WF_vars(CollectFinish)
    /\ WF_vars(TickEnd)
    /\ WF_vars(AdvanceTime)

\* ------------------------------------------------- GET /status: snapshot()
\* StatusState::snapshot reads one field after the other, each under its own
\* lock or atomic load, in the order of the source.
SnapshotReadHost ==
    /\ hpc = "idle"
    /\ resp' = [EmptySnapshot EXCEPT !.host = host]
    /\ hpc' = "read_healthy"
    /\ UNCHANGED <<now, collect_vars, status_vars, errors_total, recorded, post_states, enforce_vars, component_vars>>

SnapshotReadHealthy ==
    /\ hpc = "read_healthy"
    /\ resp' = [resp EXCEPT !.healthy = healthy]
    /\ hpc' = "read_last_scrape"
    /\ UNCHANGED <<now, collect_vars, status_vars, errors_total, recorded, post_states, enforce_vars, component_vars>>

SnapshotReadLastScrape ==
    /\ hpc = "read_last_scrape"
    /\ resp' = [resp EXCEPT !.last_scrape = last_scrape]
    /\ hpc' = "read_last_errors"
    /\ UNCHANGED <<now, collect_vars, status_vars, errors_total, recorded, post_states, enforce_vars, component_vars>>

SnapshotReadLastErrors ==
    /\ hpc = "read_last_errors"
    /\ resp' = [resp EXCEPT !.last_errors = last_errors]
    /\ hpc' = "read_gpus"
    /\ UNCHANGED <<now, collect_vars, status_vars, errors_total, recorded, post_states, enforce_vars, component_vars>>

SnapshotReadGpus ==
    /\ hpc = "read_gpus"
    /\ resp' = [resp EXCEPT !.gpus = gpu_status]
    /\ hpc' = "done"
    /\ UNCHANGED <<now, collect_vars, status_vars, errors_total, recorded, post_states, enforce_vars, component_vars>>

\* The handler serialises the snapshot and is ready for the next request.
SnapshotReturn ==
    /\ hpc = "done"
    /\ hpc' = "idle"
    /\ UNCHANGED <<resp, now, collect_vars, status_vars, errors_total, recorded, post_states, enforce_vars, component_vars>>

NextHttp ==
    \/ TickStart
    \/ CollectStart
    \/ CollectFinish
    \/ TickEnd
    \/ AdvanceTime
    \/ SnapshotReadHost
    \/ SnapshotReadHealthy
    \/ SnapshotReadLastScrape
    \/ SnapshotReadLastErrors
    \/ SnapshotReadGpus
    \/ SnapshotReturn

SpecHttp == Init /\ [][NextHttp]_vars

\* ------------------------------------------- record_error driven directly
\* Any caller of StatusState::record_error, with any collector, message and
\* timestamp.
RecordErrorCall ==
    /\ Len(recorded) < MaxRecorded
    /\ \E c \in CollectorNames, msg \in ErrMessages :
          /\ last_errors' = record_error(last_errors, c, msg, now)
          /\ recorded' = Append(recorded, CollectorError(c, msg, now))
    /\ UNCHANGED <<now, collect_vars, healthy, last_scrape, host, gpu_status,
                   errors_total, post_states, http_vars, enforce_vars, component_vars>>

NextRing == RecordErrorCall

SpecRing == Init /\ [][NextRing]_vars

\* --------------------------------------- enforcement beside collection
\* StatusState::set_gpu_statuses as the gpu collector calls it: the one
\* effect of the collection task the enforcement task can observe, through
\* snapshot().gpus.
SetGpuStatuses ==
    /\ \E reading \in GpuReadings : gpu_status' = [tick |-> tick_no, gpus |-> reading]
    /\ UNCHANGED <<now, collect_vars, healthy, last_errors, last_scrape, host,
                   errors_total, recorded, post_states, http_vars, enforce_vars, component_vars>>

Next ==
    \/ EnforceTick
    \/ SetGpuStatuses
    \/ AdvanceTime

Spec == Init /\ [][Next]_vars

\* ------------------------------------------ FlapDampener driven directly
\* Any caller of FlapDampener::record_action, at the current instant.
RecordActionCall ==
    /\ Cardinality(dlog) < MaxDampenerCalls
    /\ \E policy \in {"p", "q"}, target \in {"t", "other_target"} :
          /\ last_actions' = record_action(last_actions, policy, target, now)
          /\ dlog' = dlog \cup {<<<<policy, target>>, now>>}
    /\ UNCHANGED <<now, collect_vars, status_vars, errors_total, recorded, post_states,
                   http_vars, next_enforce, mode, violations_total, enforced_total, etick,
                   applied_at, component_vars>>

NextDampener ==
    \/ RecordActionCall
    \/ AdvanceTime

SpecDampener == Init /\ [][NextDampener]_vars

\* ---------------------------------------------------- esnode-core plan
\* command_plan: read and parse the profile, fetch the status, plan.  A
\* profile that cannot be read or parsed, or a status that cannot be fetched,
\* ends the command before plan is called.
CommandPlan ==
    /\ cli_pc = "start"
    /\ \/ /\ cli_pc' = "failed"
          /\ UNCHANGED <<cli_profile, cli_gpus, cli_result, cli_case>>
       \/ /\ cli_pc' = "done"
          /\ \E input \in PlanInputs, gpus \in PlanGpuLists :
                /\ cli_profile' = input.profile
                /\ cli_case' = input.case
                /\ cli_gpus' = gpus
                /\ cli_result' = plan(input.profile, gpus)
    /\ UNCHANGED <<now, collect_vars, status_vars, errors_total, recorded, post_states,
                   http_vars, enforce_vars, delta_vars, driver_vars, analysis_vars>>

NextPlan == CommandPlan

SpecPlan == Init /\ [][NextPlan]_vars

\* ------------------------------------------- collectors' delta counters
\* What a collect call does with the readings it obtained: reads[f] is <<>>
\* where the source could not be read (the counter is then incremented by 0
\* or left alone, and the previous value is kept).
ApplyReads(reads) ==
    /\ previous' = [f \in DeltaFamilies |->
                       IF f \in DOMAIN reads /\ reads[f] # <<>>
                       THEN DeltaOf(f, previous[f], reads[f][1]).prev ELSE previous[f]]
    /\ exported' = [f \in DeltaFamilies |->
                       IF f \in DOMAIN reads /\ reads[f] # <<>>
                       THEN exported[f] + DeltaOf(f, previous[f], reads[f][1]).delta
                       ELSE exported[f]]
    /\ src_last' = [f \in DeltaFamilies |->
                       IF f \in DOMAIN reads /\ reads[f] # <<>> THEN reads[f] ELSE src_last[f]]
    /\ src_peak' = [f \in DeltaFamilies |->
                       IF f \in DOMAIN reads /\ reads[f] # <<>>
                            /\ reads[f][1] > src_peak[f]
                       THEN reads[f][1] ELSE src_peak[f]]
    /\ sampled' = {f \in DOMAIN reads : reads[f] # <<>>}
    /\ samples' = samples + 1

\* NetworkCollector::collect: the interface's counters are always read.
NetworkCollect ==
    /\ samples < MaxSamples
    /\ \E rx \in SourceValues : ApplyReads([f \in NetFamilies |-> <<rx>>])
    /\ UNCHANGED <<now, collect_vars, status_vars, errors_total, recorded, post_states,
                   http_vars, enforce_vars, plan_vars, driver_vars, analysis_vars>>

\* GpuCollector::collect: each of the NVML counters may fail to read.
GpuCollect ==
    /\ samples < MaxSamples
    /\ \E ecc \in SourceReads, nvlink \in SourceReads :
          ApplyReads([f \in GpuFamilies |->
                         IF f = "gpu_ecc_errors_total" THEN ecc ELSE nvlink])
    /\ UNCHANGED <<now, collect_vars, status_vars, errors_total, recorded, post_states,
                   http_vars, enforce_vars, plan_vars, driver_vars, analysis_vars>>

NextDelta ==
    \/ NetworkCollect
    \/ GpuCollect

SpecDelta == Init /\ [][NextDelta]_vars

\* ------------------------------ a tick over the app collector and the runner
\* ProtocolRunner::new
NewRunner ==
    /\ drivers = <<>>
    /\ \E config \in DriverConfigs, connected \in BOOLEAN :
          drivers' = [i \in 1..Len(config) |-> [kind |-> config[i], conn |-> connected]]
    /\ UNCHANGED <<iot_sensor_value, app, dtick>>
    /\ UNCHANGED <<now, collect_vars, status_vars, errors_total, recorded, post_states,
                   http_vars, enforce_vars, plan_vars, delta_vars, analysis_vars>>

\* if let Err(err) = collector.collect(..).await { inc_error; record_error;
\* all_ok = false }, on the scheduler's running state [errors, ring, all_ok]
AfterResult(st, collector, ok) ==
    IF ok THEN st
    ELSE [errors |-> CounterInc(st.errors, collector),
          ring |-> record_error(st.ring, collector, "io", now),
          all_ok |-> FALSE]

\* One pass of the collection loop with the app collector and the protocol
\* runner registered.
DriverTick ==
    /\ drivers # <<>>
    /\ \E response \in AppResponses, envs \in [1..Len(drivers) -> DriverEnvs] :
       \E appRes \in {AppCollect(app, response)} :
       \E steps \in {[i \in 1..Len(drivers) |-> RunnerStep(drivers[i], envs[i])]} :
       \E st \in {AfterResult(AfterResult([errors |-> errors_total, ring |-> last_errors,
                                           all_ok |-> TRUE], "app", appRes.ok),
                               "protocol_runner", RunnerResult(steps))} :
          /\ app' = appRes.state
          /\ drivers' = [i \in 1..Len(drivers) |-> steps[i].driver]
          /\ iot_sensor_value' = iot_sensor_value \cup
                UNION {{<<i, steps[i].readings[j]>> : j \in 1..Len(steps[i].readings)} :
                          i \in 1..Len(drivers)}
          /\ dtick' = [ran |-> TRUE, app |-> response,
                       log |-> [i \in 1..Len(drivers) |-> steps[i].log]]
          /\ errors_total' = st.errors
          /\ last_errors' = st.ring
          /\ healthy' = st.all_ok
          /\ last_scrape' = now
    /\ UNCHANGED <<now, collect_vars, host, gpu_status, recorded, post_states,
                   http_vars, enforce_vars, plan_vars, delta_vars, analysis_vars>>

NextDrivers ==
    \/ NewRunner
    \/ DriverTick

SpecDrivers == Init /\ [][NextDrivers]_vars


\* ------------------------------------------------ the PUE calculator
\* update_it_power / update_facility_power, as the power aggregator calls them
UpdatePower ==
    /\ Len(pue_reports) < MaxReports
    /\ \E r \in PueReports :
          /\ IF r.side = "it"
             THEN /\ it_power_sources' = insert(it_power_sources, r.source, r.watts)
                  /\ UNCHANGED facility_power_sources
             ELSE /\ facility_power_sources' =
                        insert(facility_power_sources, r.source, r.watts)
                  /\ UNCHANGED it_power_sources
          /\ pue_reports' = Append(pue_reports, r)
    /\ UNCHANGED <<pue_gauges, pue_seen>>
    /\ UNCHANGED outside_pue

\* PueCalculator::collect_internal
PueCollect ==
    /\ pue_seen < Len(pue_reports) \/ pue_gauges = <<>>
    /\ pue_gauges' = <<PueGauges(it_power_sources, facility_power_sources)>>
    /\ pue_seen' = Len(pue_reports)
    /\ UNCHANGED <<it_power_sources, facility_power_sources, pue_reports>>
    /\ UNCHANGED outside_pue

NextPue ==
    \/ UpdatePower
    \/ PueCollect

SpecPue == Init /\ [][NextPue]_vars


\* ---------------------------------------------------------- the RCA engine
\* RcaEngine::new(Duration::from_secs(300), scrape_interval) at the start of
\* the collection task; the window's length is RcaWindow here.
RcaNew ==
    /\ rca_window = <<>>
    /\ \E scrape_interval \in RcaScrapeIntervals :
          /\ rca_window' = <<AnalysisWindow_new(RcaWindow, scrape_interval)>>
          /\ rca_interval' = scrape_interval
    /\ UNCHANGED <<rca_events, rca_adds>>
    /\ UNCHANGED outside_rca

\* The tick's add_snapshot(snapshot) followed by analyze().  The instant an
\* entry is stamped with is the ordinal of the call.
RcaTick ==
    /\ rca_window # <<>>
    /\ rca_adds < MaxSnapshots
    /\ \E snapshot \in RcaSnapshots :
       \E w \in {add(rca_window[1], rca_adds + 1, snapshot)} :
          /\ rca_window' = <<w>>
          /\ rca_events' = analyze(w.samples)
    /\ rca_adds' = rca_adds + 1
    /\ UNCHANGED rca_interval
    /\ UNCHANGED outside_rca

NextRca ==
    \/ RcaNew
    \/ RcaTick

SpecRca == Init /\ [][NextRca]_vars


\* ------------------------------------------------- the failure-risk predictor
\* The tick's risk_predictor.analyze(&snapshot_full), one scrape interval
\* (one unit) after the previous one.
RiskAnalyze ==
    /\ Len(risk_log) < MaxAnalyses
    /\ \E gpus \in RiskSnapshots :
       \E r \in {risk_analyze(risk_history, gpus, risk_now + 1)} :
          /\ risk_history' = r.history
          /\ risk_results' = r.results
          /\ risk_log' = Append(risk_log, [ts |-> risk_now + 1, gpus |-> gpus])
          /\ risk_gauge' = export_risk(risk_gauge, r.results)
    /\ risk_now' = risk_now + 1
    /\ UNCHANGED outside_risk

NextRisk == RiskAnalyze

SpecRisk == Init /\ [][NextRisk]_vars


\* ------------------------------------------------ throttle_power requests
\* Enforcer::new
EnforcerNew ==
    /\ enforcer_nvml = "new"
    /\ enforcer_nvml' \in {"no_feature", "none", "some"}
    /\ UNCHANGED <<power_limit, throttle>>
    /\ UNCHANGED outside_throttle

\* apply_action with a throttle_power action
ThrottlePower ==
    /\ enforcer_nvml # "new"
    /\ \E target \in ThrottleTargets, parameters \in ThrottleParameters,
          constraints_ok \in BOOLEAN, set_ok \in BOOLEAN :
       \E out \in {apply_throttle_power(enforcer_nvml, target, parameters, power_limit,
                                        constraints_ok, set_ok)} :
          /\ power_limit' = out.limit
          /\ throttle' = << [target |-> target, parameters |-> parameters,
                             constraints_ok |-> constraints_ok, before |-> power_limit,
                             result |-> out.result, set |-> out.set] >>
    /\ UNCHANGED enforcer_nvml
    /\ UNCHANGED outside_throttle

NextThrottle ==
    \/ EnforcerNew
    \/ ThrottlePower

SpecThrottle == Init /\ [][NextThrottle]_vars


\* ------------------------------------------------- main: the configuration
LoadConfig ==
    /\ cfg_pc = "start"
    /\ \E input \in ConfigInputs :
          /\ cfg_input' = input
          /\ agent_config' = EffectiveConfig(input)
    /\ cfg_pc' = "loaded"
    /\ UNCHANGED outside_config

NextConfig == LoadConfig

SpecConfig == Init /\ [][NextConfig]_vars


\* ------------------------------------------------ the tick's TSDB write
\* Agent::new: local_tsdb is Some when enable_local_tsdb is set and the store
\* could be opened.
TsdbNew ==
    /\ tsdb = "new"
    /\ tsdb' \in {"some", "none"}
    /\ UNCHANGED <<wall_ms, last_tsdb_write_ms, tsdb_ticks, tsdb_writes>>
    /\ UNCHANGED outside_tsdb

\* The end of a tick: write the registry's samples if the TSDB is there and
\* the interval has passed; a failed write is logged and counts as the last
\* write all the same.
TsdbTick ==
    /\ tsdb # "new"
    /\ Len(tsdb_ticks) < MaxTsdbTicks
    /\ \E step \in TsdbSteps, write_ok \in BOOLEAN :
       \E ts \in {IF tsdb_ticks = <<>> THEN wall_ms ELSE wall_ms + step} :
          /\ ts >= 0
          /\ wall_ms' = ts
          /\ tsdb_ticks' = Append(tsdb_ticks, ts)
          /\ IF tsdb = "some" /\ tsdb_due(ts, last_tsdb_write_ms)
             THEN /\ tsdb_writes' = Append(tsdb_writes,
                                           [tick |-> Len(tsdb_ticks) + 1, ts |-> ts,
                                            ok |-> write_ok])
                  /\ last_tsdb_write_ms' = ts
             ELSE /\ write_ok
                  /\ UNCHANGED <<tsdb_writes, last_tsdb_write_ms>>
    /\ UNCHANGED tsdb
    /\ UNCHANGED outside_tsdb

NextTsdb ==
    \/ TsdbNew
    \/ TsdbTick

SpecTsdb == Init /\ [][NextTsdb]_vars


\* ------------------------------------------- the orchestrator's thermal tick
\* Orchestrator::new(devices, config)
OrchNew ==
    /\ orch_devices = <<>>
    /\ orch_devices' \in OrchDevices
    /\ UNCHANGED <<thermal_before, thermal_ticks>>
    /\ UNCHANGED outside_thermal

\* check_thermals(&mut orch)
ThermalTick ==
    /\ orch_devices # <<>>
    /\ orch_devices' = check_thermals(orch_devices)
    /\ thermal_before' = <<orch_devices>>
    /\ thermal_ticks' = IF thermal_ticks < 2 THEN thermal_ticks + 1 ELSE 2
    /\ UNCHANGED outside_thermal

NextThermal ==
    \/ OrchNew
    \/ ThermalTick

SpecThermal == Init /\ [][NextThermal]_vars


\* ------------------------------------------------ primary NIC selection
\* NetworkCollector::collect: the per-interface loop and the summary
NicCollect ==
    /\ nic_ticks < MaxNicTicks
    /\ \E reading \in NicReadings, order \in NicOrders :
          \E deltas \in {NicDeltas(nic_previous, reading)} :
             /\ nic_previous' = reading
             /\ nic_deltas' = deltas
             /\ primary_nic' = select_best(<<>>, order, deltas)
    /\ nic_ticks' = nic_ticks + 1
    /\ UNCHANGED outside_nic

NextNic == NicCollect

SpecNic == Init /\ [][NextNic]_vars


\* ---------------------------------------------------- MQTT topic matching
\* one call of topic_matches, as find_mapping makes for a received topic
TopicMatch ==
    /\ mqtt_matched = "none"
    /\ \E pattern \in MqttPatterns, topic \in MqttTopics :
          /\ mqtt_pattern' = pattern
          /\ mqtt_topic' = topic
          /\ mqtt_matched' = IF topic_matches(pattern, topic) THEN "true" ELSE "false"
    /\ UNCHANGED outside_topic

NextTopic == TopicMatch

SpecTopic == Init /\ [][NextTopic]_vars


\* ------------------------------------------------ editing the config file
\* the file as the operator left it before the first edit command
ConfigFileGiven ==
    /\ edit_pc = "start"
    /\ edit_pc' = "file"
    /\ config_file' \in {<<>>} \cup {<<f>> : f \in ConfigFiles}
    /\ UNCHANGED <<file_before, last_edit, edits>>
    /\ UNCHANGED outside_edit

\* command_config_set(path, "KEY=VALUE")
ConfigSet ==
    /\ edit_pc = "file"
    /\ edits < MaxEdits
    /\ \E key \in EditBools \cup {"tags"}, val \in {"true", "false", "yes"} :
          \E applied \in {apply_config_kv(config_from_file(config_file), key, val)} :
             /\ config_file' = IF applied = <<>> THEN config_file
                               ELSE persist_config(applied[1])
             /\ last_edit' = [command |-> "set", named |-> {key}, wrote |-> applied # <<>>]
    /\ file_before' = config_file
    /\ edits' = edits + 1
    /\ UNCHANGED edit_pc
    /\ UNCHANGED outside_edit

\* command_toggle_metric_set(path, set, enable)
ToggleMetricSet ==
    /\ edit_pc = "file"
    /\ edits < MaxEdits
    /\ \E set \in MetricSets, enable \in BOOLEAN :
          /\ config_file' = persist_config(toggle_metric_set(config_from_file(config_file),
                                                             set, enable))
          /\ last_edit' = [command |-> "toggle", named |-> FlagsOf(set), wrote |-> TRUE]
    /\ file_before' = config_file
    /\ edits' = edits + 1
    /\ UNCHANGED edit_pc
    /\ UNCHANGED outside_edit

NextEdit ==
    \/ ConfigFileGiven
    \/ ConfigSet
    \/ ToggleMetricSet

SpecEdit == Init /\ [][NextEdit]_vars


\* ------------------------------------- MQTT receiver task beside read_all
\* a Publish with a mapping and a value: buffer.lock().await
ReceiverLock ==
    /\ receiver_pc = "poll"
    /\ received < MaxReadings
    /\ buffer_lock = "free"
    /\ buffer_lock' = "receiver"
    /\ receiver_pc' = "locked"
    /\ UNCHANGED <<readings_buffer, received, discarded, delivered, last_read, read_calls>>
    /\ UNCHANGED outside_mqtt

\* buf.push(reading)
ReceiverPush ==
    /\ receiver_pc = "locked"
    /\ readings_buffer' = Append(readings_buffer, received + 1)
    /\ received' = received + 1
    /\ receiver_pc' = "pushed"
    /\ UNCHANGED <<buffer_lock, discarded, delivered, last_read, read_calls>>
    /\ UNCHANGED outside_mqtt

\* the length check, the drain of the oldest readings, and the guard's drop
ReceiverLimit ==
    /\ receiver_pc = "pushed"
    /\ readings_buffer' = limit_buffer(readings_buffer)
    /\ discarded' = discarded \cup (Elements(readings_buffer) \ Elements(readings_buffer'))
    /\ buffer_lock' = "free"
    /\ receiver_pc' = "poll"
    /\ UNCHANGED <<received, delivered, last_read, read_calls>>
    /\ UNCHANGED outside_mqtt

\* MqttDriver::read_all: the lock, the drain, and the guard's drop
MqttReadAllCall ==
    /\ read_calls < MaxReads
    /\ buffer_lock = "free"
    /\ \E r \in {drain_all(readings_buffer)} :
          /\ readings_buffer' = r.buffer
          /\ delivered' = delivered \o r.readings
          /\ last_read' = <<[found |-> readings_buffer, returned |-> r.readings,
                             left |-> r.buffer]>>
    /\ read_calls' = read_calls + 1
    /\ UNCHANGED <<buffer_lock, receiver_pc, received, discarded>>
    /\ UNCHANGED outside_mqtt

NextMqtt ==
    \/ ReceiverLock
    \/ ReceiverPush
    \/ ReceiverLimit
    \/ MqttReadAllCall

SpecMqtt == Init /\ [][NextMqtt]_vars

\* ------------------------------------------------------------------ claims
Min(a, b) == IF a < b THEN a ELSE b

TickNumbers == 1..(MaxTime + 1)

\* C1: when a collect call returns Err, agent_errors_total of that collector
\* grows by exactly one and exactly one entry (collector, message, the tick's
\* timestamp) is appended to the error ring; a collect call that returns Ok,
\* and every other step, leaves both alone; the end of the tick stores
\* healthy = (no collector of the tick returned Err); as long as no collector
\* ever failed, healthy is true and every agent_errors_total is zero.
C1_ErrorAccounting ==
    /\ [](recorded = <<>> => (healthy /\ \A c \in CollectorNames : errors_total[c] = 0))
    /\ [][ /\ (cpc = "await" /\ cpc' # "await" /\ tick_errs' # tick_errs) =>
               LET c == Collectors[cidx]
                   n == Len(last_errors')
                   shift == Len(last_errors) + 1 - n
               IN /\ errors_total' = [errors_total EXCEPT ![c] = @ + 1]
                  /\ n = Min(Len(last_errors) + 1, ErrorRingCap)
                  /\ last_errors'[n].collector = c
                  /\ last_errors'[n].unix_ms = ts_ms
                  /\ last_errors'[n] = recorded'[Len(recorded')]
                  /\ \A i \in 1..(n - 1) : last_errors'[i] = last_errors[i + shift]
           /\ ~(cpc = "await" /\ cpc' # "await" /\ tick_errs' # tick_errs) =>
               (errors_total' = errors_total /\ last_errors' = last_errors)
           /\ (cpc = "post" /\ cpc' = "idle") => (healthy' = (tick_errs = {}))
           /\ ~(cpc = "post" /\ cpc' = "idle") => (healthy' = healthy)
      ]_vars

\* A tick in which only the gpu collector failed has ended.
C1_Witness ==
    /\ cpc = "idle"
    /\ tick_no = 1
    /\ ~healthy
    /\ errors_total = [c \in CollectorNames |-> IF c = "gpu" THEN 1 ELSE 0]
    /\ Len(last_errors) = 1

\* C2: a snapshot returned to the /status handler equals the contents the
\* status state had at the end of some tick (or at start-up).
C2_PostTickSnapshot == hpc = "done" => resp \in post_states

\* C3: the error ring holds the most recent min(n, 10) of the n errors
\* recorded, in the order they were recorded.
C3_ErrorRing ==
    /\ Len(last_errors) = Min(Len(recorded), ErrorRingCap)
    /\ \A i \in 1..Len(last_errors) :
          last_errors[i] = recorded[Len(recorded) - Len(last_errors) + i]

\* More errors than the ring holds have been recorded.
C3_Witness == Len(recorded) > ErrorRingCap /\ Len(last_errors) = ErrorRingCap

\* C4: no collector ever has two collect calls in progress.
C4_NoReentry == \A c \in CollectorNames : active[c] <= 1

\* A collect call is still in progress a full scrape interval after its tick
\* started, and the next tick is due.
C4_Witness ==
    /\ cpc = "await"
    /\ now >= ts_ms + ScrapeInterval
    /\ now >= next_tick

\* C5: the post-collection steps are reached only after every registered
\* collector was invoked in the tick; a collect call that returns Err moves
\* the loop to the next collector; a tick in which a collector failed
\* completes its post-collection steps, and the next tick starts when its
\* deadline falls inside the modelled time.
C5_FailureIsolation ==
    /\ [](cpc = "post" => invoked = CollectorNames)
    /\ [][ (cpc = "await" /\ cpc' # "await" /\ tick_errs' # tick_errs) =>
              (cidx' = cidx + 1 /\ cpc' = IF cidx < Len(Collectors) THEN "call" ELSE "post") ]_vars
    /\ \A n \in TickNumbers :
          (tick_no = n /\ tick_errs # {}) ~> (tick_no = n /\ cpc = "idle" /\ last_scrape = ts_ms)
    /\ \A n \in TickNumbers :
          (tick_no = n /\ tick_errs # {} /\ next_tick <= MaxTime) ~> (tick_no > n)

\* The first collector failed in tick 1, the second one published in tick 1,
\* and tick 2 has started.
C5_Witness ==
    /\ tick_no = 2
    /\ host = 0
    /\ errors_total["cpu"] >= 1
    /\ gpu_status.tick = 1

PairOf(e) == <<e.policy_name, e.target_resource>>

Executed(e) == e.outcome \in {"success", "failure"}

\* C6: in Enforce mode the action executor is invoked for a (policy, target)
\* pair only when at least dampening_interval has passed since the last
\* successful action for that pair, be it in an earlier enforcement tick or
\* earlier in the same one.
C6_DampenedNoop ==
    [][ (etick'.n # etick.n /\ mode = "Enforce") =>
          \A i \in 1..Len(etick'.trace) :
             Executed(etick'.trace[i]) =>
                /\ PairOf(etick'.trace[i]) \in DOMAIN applied_at =>
                      etick'.time - applied_at[PairOf(etick'.trace[i])] >= DampeningInterval
                /\ \A j \in 1..(i - 1) :
                      (PairOf(etick'.trace[j]) = PairOf(etick'.trace[i])
                         /\ etick'.trace[j].outcome = "success") => 0 >= DampeningInterval
      ]_vars

\* A violation of a pair was suppressed on a tick later than the one that
\* applied the pair's action.
C6_Witness ==
    /\ mode = "Enforce"
    /\ \E i \in 1..Len(etick.trace) :
          /\ etick.trace[i].outcome = "dampened"
          /\ PairOf(etick.trace[i]) \in DOMAIN applied_at
          /\ applied_at[PairOf(etick.trace[i])] < etick.time

\* C7: can_apply(p, t) is true iff no record_action(p, t) call was made or
\* every one of them, hence the most recent, is at least dampening_interval
\* old; the calls made for other pairs play no part.
C7_Dampener ==
    \A policy \in {"p", "q"}, target \in {"t", "other_target"} :
       LET times == {d[2] : d \in {e \in dlog : e[1] = <<policy, target>>}}
       IN can_apply(last_actions, policy, target, now) =
             (\A at \in times : now - at >= DampeningInterval)

\* ("p", "t") is dampened while ("p", "other_target"), recorded earlier, can
\* be applied again.
C7_Witness ==
    /\ ~can_apply(last_actions, "p", "t", now)
    /\ <<"p", "other_target">> \in DOMAIN last_actions
    /\ can_apply(last_actions, "p", "other_target", now)

\* C8: on an Enforce-mode tick, a pair whose executor invocations all failed
\* keeps its dampener entry and can still be applied; policy_enforced_total
\* {policy, target, failure} grows by the number of failed invocations; the
\* loop handles every violation of the plan, in order; the ticker is re-armed.
C8_FailureNotArmed ==
    [][ (etick'.n # etick.n /\ mode = "Enforce" /\ etick'.loaded) =>
          LET tr == etick'.trace
              viol == Violations(etick'.plan)
              failed == PairsWith(tr, "failure")
          IN /\ \A pair \in failed \ PairsWith(tr, "success") :
                   /\ MapGet(last_actions', pair) = MapGet(last_actions, pair)
                   /\ can_apply(last_actions', pair[1], pair[2], etick'.time)
             /\ \A pair \in failed :
                   CounterValue(enforced_total', <<pair[1], pair[2], "failure">>) =
                      CounterValue(enforced_total, <<pair[1], pair[2], "failure">>) +
                      Cardinality({i \in 1..Len(tr) :
                                      PairOf(tr[i]) = pair /\ tr[i].outcome = "failure"})
             /\ Len(tr) = Len(viol)
             /\ \A i \in 1..Len(tr) : PairOf(tr[i]) = PairOf(viol[i])
             /\ next_enforce' = next_enforce + EnforcementInterval
      ]_vars

\* In one tick the executor failed for one violation and a later violation
\* of the same tick was enforced.
C8_Witness ==
    /\ mode = "Enforce"
    /\ \E i, j \in 1..Len(etick.trace) :
          /\ i < j
          /\ etick.trace[i].outcome = "failure"
          /\ PairOf(etick.trace[i]) \notin DOMAIN last_actions
          /\ etick.trace[j].outcome = "success"

\* C9 as stated: every violated entry of an Enforce-mode tick is either
\* suppressed or enforced, that is its action applied and its dampener armed.
C9_EnforcedOrSuppressed ==
    (mode = "Enforce" /\ etick.loaded) =>
       \A i \in 1..Len(etick.trace) :
          \/ etick.trace[i].outcome = "dampened"
          \/ /\ etick.trace[i].outcome = "success"
             /\ MapGet(last_actions, PairOf(etick.trace[i])) = <<etick.time>>

\* C9 amended: on an Enforce-mode tick the violated entries of the plan, and
\* only they, are handled in order; an entry is suppressed iff the dampener
\* holds an instant for its pair less than dampening_interval old (from
\* before the tick, or from a success earlier in the tick), otherwise the
\* executor is invoked; after the tick the dampener holds the tick's instant
\* for the pairs whose action succeeded and is unchanged for all others.
C9_StateMachine ==
    (mode = "Enforce" /\ etick.loaded) =>
       LET tr == etick.trace
           viol == Violations(etick.plan)
           Armed(i) ==
              \/ /\ PairOf(tr[i]) \in DOMAIN etick.pre
                 /\ etick.time - etick.pre[PairOf(tr[i])] < DampeningInterval
              \/ \E j \in 1..(i - 1) :
                    /\ PairOf(tr[j]) = PairOf(tr[i])
                    /\ tr[j].outcome = "success"
                    /\ 0 < DampeningInterval
       IN /\ Len(tr) = Len(viol)
          /\ \A i \in 1..Len(tr) :
                /\ PairOf(tr[i]) = PairOf(viol[i])
                /\ Armed(i) => tr[i].outcome = "dampened"
                /\ ~Armed(i) => Executed(tr[i])
          /\ \A pair \in DOMAIN last_actions \cup DOMAIN etick.pre \cup PairsWith(tr, "success") :
                MapGet(last_actions, pair) =
                   IF pair \in PairsWith(tr, "success") THEN <<etick.time>>
                   ELSE MapGet(etick.pre, pair)

\* One tick whose plan has a satisfied entry, an enforced violation and a
\* suppressed violation.
C9_Witness ==
    /\ mode = "Enforce"
    /\ \E i \in 1..Len(etick.plan) : etick.plan[i].status = "Satisfied"
    /\ \E i \in 1..Len(etick.trace) : etick.trace[i].outcome = "dampened"
    /\ \E i \in 1..Len(etick.trace) : etick.trace[i].outcome = "success"

\* C10: an evaluation cycle adds to policy_violations_total{policy, target,
\* violation} the number of violated plan entries with these labels, in both
\* modes and whether or not enforcement is dampened; it adds to
\* policy_enforced_total{policy, target, result} the number of executor
\* invocations with this outcome; no other step changes either family.
C10_PolicyCounters ==
    [][ /\ (etick'.n # etick.n) =>
             LET tr == etick'.trace
                 viol == Violations(etick'.plan)
                 ViolLabels(v) == <<v.policy_name, v.target_resource, "violation">>
                 EnfLabels(e) == <<e.policy_name, e.target_resource, e.outcome>>
                 executed == {i \in 1..Len(tr) : Executed(tr[i])}
             IN /\ \A labels \in DOMAIN violations_total' \cup
                                 {ViolLabels(viol[i]) : i \in 1..Len(viol)} :
                      CounterValue(violations_total', labels) =
                         CounterValue(violations_total, labels) +
                         Cardinality({i \in 1..Len(viol) : ViolLabels(viol[i]) = labels})
                /\ \A labels \in DOMAIN enforced_total' \cup
                                 {EnfLabels(tr[i]) : i \in executed} :
                      CounterValue(enforced_total', labels) =
                         CounterValue(enforced_total, labels) +
                         Cardinality({i \in executed : EnfLabels(tr[i]) = labels})
                /\ (mode = "Monitor") => executed = {}
        /\ (etick'.n = etick.n) =>
             (violations_total' = violations_total /\ enforced_total' = enforced_total)
      ]_vars

\* A pair was enforced once and its later violation, though dampened, was
\* counted.
C10_Witness ==
    /\ mode = "Enforce"
    /\ \E i \in 1..Len(etick.trace) :
          /\ etick.trace[i].outcome = "dampened"
          /\ CounterValue(violations_total, <<etick.trace[i].policy_name,
                            etick.trace[i].target_resource, "violation">>) >= 2
          /\ CounterValue(enforced_total, <<etick.trace[i].policy_name,
                            etick.trace[i].target_resource, "success">>) = 1

\* The comparison an operator of the condition grammar stands for.
Holds(op, reading, threshold) ==
    CASE op = <<">">> -> reading > threshold
      [] op = <<">", "=">> -> reading >= threshold
      [] op = <<"<">> -> reading < threshold
      [] op = <<"<", "=">> -> reading <= threshold
      [] op \in {<<"=">>, <<"=", "=">>} -> reading = threshold
      [] op = <<"!", "=">> -> reading # threshold

\* The reading of a GPU a per-GPU target looks at.
ReadingOf(target, gpu) ==
    IF target = "gpu_temp_celsius" THEN gpu.temperature_celsius ELSE gpu.util_percent

EvaluatedTargets == {"gpu_temp_celsius", "gpu_utilization"}

C12_SupportedTargets ==
    (cli_pc = "done" /\ cli_case.kind = "wellformed") =>
       /\ cli_profile.policies[1].target \in PolicyTargets
       /\ \A i \in 1..Len(cli_result) :
             /\ cli_result[i].status \in {"Satisfied", "Violated"}
             /\ cli_result[i].current_value # <<"N/A">>

\* C13 as stated: a rule whose condition is outside the grammar yields no
\* Satisfied and no Violated entry.
C13_MalformedRejected ==
    (cli_pc = "done" /\ cli_case.kind = "malformed") =>
       \A i \in 1..Len(cli_result) : cli_result[i].status \notin {"Satisfied", "Violated"}

\* The number of entries a rule contributes: one per GPU of the snapshot for
\* a target evaluated per GPU, one for any other target.
EntryCount(policy) == IF policy.target \in EvaluatedTargets THEN Len(cli_gpus) ELSE 1

\* The number of entries of the rules before rule k.
EntryOffset(k) ==
    Cardinality(UNION {{<<j, i>> : i \in 1..EntryCount(cli_profile.policies[j])} :
                          j \in 1..(k - 1)})

C16_CounterMonotonic ==
    [][ \A f \in DeltaFamilies :
          /\ exported'[f] >= exported[f]
          /\ (samples' # samples /\ f \in sampled' /\ src_last[f] # <<>>) =>
                IF src_last'[f][1] < src_last[f][1]
                THEN exported'[f] = exported[f]
                ELSE exported'[f] = exported[f] + (src_last'[f][1] - src_last[f][1])
      ]_vars

\* A network source counter went back after the registry counter had been
\* raised, and the registry counter kept its value.
C16_Witness ==
    /\ "network_rx_bytes_total" \in sampled
    /\ src_last["network_rx_bytes_total"] = <<0>>
    /\ src_peak["network_rx_bytes_total"] = MaxSource
    /\ exported["network_rx_bytes_total"] = MaxSource

\* C17 as stated: while a source counter reads below the highest value it
\* had before it went back, nothing is added to the registry counter.
C17_RollbackCatchUp ==
    [][ \A f \in DeltaFamilies :
          (samples' # samples /\ f \in sampled' /\ src_last'[f][1] < src_peak[f]) =>
             exported'[f] = exported[f]
      ]_vars

\* The scheduler has accounted a failure of the collector in the last tick.
Accounted(collector) ==
    /\ CounterValue(errors_total, collector) >= 1
    /\ \E i \in 1..Len(last_errors) : last_errors[i].collector = collector
    /\ ~healthy

\* C18 as stated: after a tick in which the app collector found its endpoint
\* unreachable or without usable content, or a driver's read_all failed
\* inside the protocol runner, the collector's agent_errors_total is raised,
\* the error ring holds an entry of the collector, and healthy is false.
C18_TransientAccounted ==
    dtick.ran =>
       /\ dtick.app \in {"unreachable", "no_tokens"} => Accounted("app")
       /\ (\E i \in 1..Len(dtick.log) : ~dtick.log[i].ok) => Accounted("protocol_runner")

\* C19 as stated: a driver that is not connected when a tick starts has
\* connect() called for it during that tick.
C19_ConnectRetried ==
    [][ drivers # <<>> =>
          \A i \in 1..Len(drivers) : ~drivers[i].conn => dtick'.log[i].connect_attempted
      ]_vars

\* The number of datapoints a driver is configured with (a DNP3 driver has
\* link addresses only).
Configured(kind) == IF kind = "dnp3" THEN 0 ELSE MaxDatapoints

\* C20 as stated: a read_all of a Modbus, SNMP or DNP3 driver that returned
\* Ok met no transport error and carries a reading for every configured
\* datapoint.
C20_NoPartialReads ==
    dtick.ran =>
       \A i \in 1..Len(dtick.log) :
          (dtick.log[i].kind \in {"modbus", "snmp", "dnp3"} /\ dtick.log[i].ok) =>
             /\ ~dtick.log[i].transport
             /\ dtick.log[i].count = Configured(dtick.log[i].kind)


\* The reports the last collect call had before it.
SeenReports == SubSeq(pue_reports, 1, pue_seen)

\* The value a source reported last among the given reports, 0 if never.
LatestWatts(reports, side, source) ==
    LET idx == {i \in 1..Len(reports) :
                   reports[i].side = side /\ reports[i].source = source}
    IN IF idx = {} THEN 0
       ELSE reports[CHOOSE i \in idx : \A j \in idx : j <= i].watts

LatestIt(reports) ==
    LatestWatts(reports, "it", "server-1") + LatestWatts(reports, "it", "server-2")

LatestFacility(reports) ==
    LatestWatts(reports, "facility", "pdu-1") + LatestWatts(reports, "facility", "pdu-2")

C22_PueComputation ==
    pue_gauges # <<>> =>
        LET g == pue_gauges[1]
            it == LatestIt(SeenReports)
            facility == LatestFacility(SeenReports)
        IN /\ g.pue_it_power_watts = it
           /\ g.pue_facility_power_watts = facility
           /\ (it > 0 /\ facility <= 10 * it) => RatioEq(g.pue_ratio, Ratio(facility, it))

\* server-1: 1000 and pdu-1: 1000, then server-2: 500 and pdu-2: 1000, give
\* 2000 / 1500
C22_Witness ==
    /\ pue_gauges # <<>>
    /\ pue_seen = 4
    /\ SeenReports = << [side |-> "it", source |-> "server-1", watts |-> 1000],
                        [side |-> "facility", source |-> "pdu-1", watts |-> 1000],
                        [side |-> "it", source |-> "server-2", watts |-> 500],
                        [side |-> "facility", source |-> "pdu-2", watts |-> 1000] >>
    /\ RatioEq(pue_gauges[1].pue_ratio, Ratio(2000, 1500))


RcaSamples == rca_window[1].samples

RcaLatest == RcaSamples[Len(RcaSamples)].snapshot

RcaPrev == RcaSamples[Len(RcaSamples) - 1].snapshot

RcaUtil(snapshot, i) ==
    IF snapshot.gpus[i].util_percent = <<>> THEN 0 ELSE snapshot.gpus[i].util_percent[1]

\* GPU i (1-based position) shows a utilization dip between the last two
\* snapshots of the window.
RcaDip(i) ==
    /\ Len(RcaSamples) >= 2
    /\ i \in 1..Len(RcaLatest.gpus)
    /\ i \in 1..Len(RcaPrev.gpus)
    /\ RcaUtil(RcaPrev, i) > 5000
    /\ RcaUtil(RcaLatest, i) < RcaUtil(RcaPrev, i) - 2000

\* The causes that apply to GPU i, in priority order 1, 2, 3.
RcaApplies(i, rank) ==
    CASE rank = 1 -> \E k \in 1..Len(RcaSamples) :
                        k + 3 > Len(RcaSamples) /\ RcaSamples[k].snapshot.network_degraded
      [] rank = 2 -> RcaLatest.gpus[i].thermal_throttle
      [] rank = 3 -> RcaLatest.k8s_events_detected

RcaCauseName(rank) ==
    CASE rank = 1 -> "NetworkLatency"
      [] rank = 2 -> "ThermalThrottling"
      [] rank = 3 -> "KubernetesEvents"

RcaEventsOf(i) == {k \in 1..Len(rca_events) : rca_events[k].gpu = i - 1}

\* C23: on a tick, a GPU with a utilization dip gets at most one event, with
\* the first applicable cause in the order NetworkLatency, ThermalThrottling,
\* KubernetesEvents (one event if any cause applies); a GPU without a dip
\* gets none, and none is emitted with fewer than 2 samples.
C23_RcaEventSelection ==
    (rca_window # <<>> /\ rca_adds > 0) =>
        /\ Len(RcaSamples) < 2 => rca_events = <<>>
        /\ \A k \in 1..Len(rca_events) : rca_events[k].gpu + 1 \in 1..Len(RcaLatest.gpus)
        /\ \A i \in 1..Len(RcaLatest.gpus) :
              /\ Cardinality(RcaEventsOf(i)) <= 1
              /\ ~RcaDip(i) => RcaEventsOf(i) = {}
              /\ RcaDip(i) =>
                    /\ (\A rank \in 1..3 : ~RcaApplies(i, rank)) => RcaEventsOf(i) = {}
                    /\ \A rank \in 1..3 :
                          (RcaApplies(i, rank) /\ \A r \in 1..(rank - 1) : ~RcaApplies(i, r))
                              => \E k \in RcaEventsOf(i) :
                                    rca_events[k].cause = RcaCauseName(rank)

\* a dip of the second GPU, throttled, with the Kubernetes flag set as well and
\* the network degraded only in the snapshot four back: one ThermalThrottling
\* event, and none for the first GPU, which did not dip
C23_Witness ==
    /\ rca_window # <<>>
    /\ Len(RcaSamples) = 4
    /\ RcaSamples[1].snapshot.network_degraded
    /\ Len(RcaLatest.gpus) = 2
    /\ ~RcaDip(1)
    /\ RcaDip(2)
    /\ RcaApplies(2, 2) /\ RcaApplies(2, 3)
    /\ Len(rca_events) = 1
    /\ rca_events[1].cause = "ThermalThrottling"
    /\ rca_events[1].gpu = 1

\* ceil(window_duration / scrape_interval)
RcaCapacity ==
    CHOOSE n \in 0..RcaWindow :
        n * rca_interval >= RcaWindow /\ (n - 1) * rca_interval < RcaWindow

\* C24: the window never holds more than N = ceil(window_duration /
\* scrape_interval) snapshots, and what it holds are the most recently added
\* ones, oldest first.
C24_WindowBound ==
    rca_window # <<>> =>
        LET n == IF rca_adds < RcaCapacity THEN rca_adds ELSE RcaCapacity
        IN /\ Len(RcaSamples) <= RcaCapacity
           /\ Len(RcaSamples) = n
           /\ \A k \in 1..n : RcaSamples[k].ts = rca_adds - n + k

\* more adds than the window holds: the oldest are gone
C24_Witness ==
    /\ rca_window # <<>>
    /\ rca_adds = MaxSnapshots
    /\ RcaCapacity = 2
    /\ Len(RcaSamples) = 2
    /\ RcaSamples[1].ts = MaxSnapshots - 1


\* The analyze calls of the window that ends now in which the GPU reported a
\* health, oldest first (positions in the log).
RiskInWindow(uuid) ==
    {k \in 1..Len(risk_log) :
        /\ risk_now - risk_log[k].ts <= RiskWindow
        /\ \E i \in 1..Len(risk_log[k].gpus) :
              risk_log[k].gpus[i].uuid = uuid /\ risk_log[k].gpus[i].health # <<>>}

RiskHealthAt(k, uuid) ==
    (risk_log[k].gpus[CHOOSE i \in 1..Len(risk_log[k].gpus) :
                          risk_log[k].gpus[i].uuid = uuid]).health[1]

\* The corrected-ECC readings of the GPU in the window.
RiskCorrected(uuid) ==
    {k \in RiskInWindow(uuid) : RiskHealthAt(k, uuid).ecc_corrected_aggregate # <<>>}

RiskCorrectedDelta(uuid) ==
    IF RiskCorrected(uuid) = {} THEN 0
    ELSE LET first == CHOOSE k \in RiskCorrected(uuid) : \A j \in RiskCorrected(uuid) : k <= j
             last == CHOOSE k \in RiskCorrected(uuid) : \A j \in RiskCorrected(uuid) : j <= k
             d == RiskHealthAt(last, uuid).ecc_corrected_aggregate[1]
                    - RiskHealthAt(first, uuid).ecc_corrected_aggregate[1]
         IN IF d > 0 THEN d ELSE 0

RiskThermalSamples(uuid) ==
    Cardinality({k \in RiskInWindow(uuid) :
                    \E i \in 1..Len(RiskHealthAt(k, uuid).throttle_reasons) :
                        RiskHealthAt(k, uuid).throttle_reasons[i] = "thermal"})

\* The contributions [score, probability] the latest snapshot triggers for
\* the GPU.
RiskContributions(uuid) ==
    LET latest == risk_log[Len(risk_log)].gpus
        gpu == latest[CHOOSE i \in 1..Len(latest) : latest[i].uuid = uuid]
        h == gpu.health
    IN (IF h # <<>> /\ h[1].ecc_uncorrected_aggregate # <<>>
            /\ h[1].ecc_uncorrected_aggregate[1] > 0 THEN {<<"uncorrected", 80, 50>>} ELSE {})
       \cup (IF RiskCorrectedDelta(uuid) > 1000 THEN {<<"corrected", 50, 20>>}
             ELSE IF RiskCorrectedDelta(uuid) > 100 THEN {<<"corrected", 20, 5>>} ELSE {})
       \cup (IF RiskThermalSamples(uuid) > ThermalSamplesLimit
             THEN {<<"thermal", 30, 10>>} ELSE {})
       \cup (IF h # <<>> /\ h[1].retired_pages # <<>> /\ h[1].retired_pages[1] > 1
             THEN {<<"pages", 40, 15>>} ELSE {})

RECURSIVE SumField(_, _)
SumField(set, field) ==
    IF set = {} THEN 0
    ELSE LET x == CHOOSE y \in set : TRUE IN x[field] + SumField(set \ {x}, field)

\* C25: for every GPU of the analysed snapshot, risk_score is the sum of the
\* triggered contributions capped at 100 and failure_probability is 0.01 plus
\* the triggered increments capped at 1.0 (uncorrected ECC > 0: 80 / 0.5;
\* corrected-ECC delta over the window > 1000: 50 / 0.2, else > 100: 20 / 0.05;
\* more thermal-throttle samples in the window than the limit: 30 / 0.1;
\* retired pages > 1: 40 / 0.15).
C25_RiskScoring ==
    risk_log # <<>> =>
        \A uuid \in DOMAIN risk_results :
            /\ risk_results[uuid].risk_score = Min(100, SumField(RiskContributions(uuid), 2))
            /\ risk_results[uuid].failure_probability
                  = Min(100, 1 + SumField(RiskContributions(uuid), 3))

\* every factor at once: 80 + 50 + 30 + 40 capped at 100, and 0.96
C25_Witness ==
    /\ risk_log # <<>>
    /\ "GPU-a" \in DOMAIN risk_results
    /\ Cardinality(RiskContributions("GPU-a")) = 4
    /\ SumField(RiskContributions("GPU-a"), 2) = 200
    /\ risk_results["GPU-a"].risk_score = 100
    /\ risk_results["GPU-a"].failure_probability = 96

\* C26 (as stated): after every analyze call none of the three rings of any
\* GPU holds an entry older than the history window.
C26_HistoryPruned ==
    \A uuid \in DOMAIN risk_history :
        /\ \A i \in 1..Len(risk_history[uuid].ecc_corrected_aggr) :
              risk_now - risk_history[uuid].ecc_corrected_aggr[i].ts <= RiskWindow
        /\ \A i \in 1..Len(risk_history[uuid].ecc_uncorrected_aggr) :
              risk_now - risk_history[uuid].ecc_uncorrected_aggr[i].ts <= RiskWindow
        /\ \A i \in 1..Len(risk_history[uuid].throttle_events) :
              risk_now - risk_history[uuid].throttle_events[i].ts <= RiskWindow


\* The last request reached the device's constraints: NVML is there, the
\* target names a device, the limit is a number, the constraints were read.
ThrottleChecked ==
    /\ throttle # <<>>
    /\ throttle[1].result \in {"out_of_range", "set_failed", "ok"}

\* The device the last request was for, and its limit in whole milliwatts.
ThrottleDevice ==
    CHOOSE d \in 1..Len(NvmlDevices) :
        LET t == throttle[1].target
            name == IF Len(t) >= 4 /\ SubSeq(t, 1, 4) = <<"G", "P", "U", "-">>
                    THEN SubSeq(t, 5, Len(t)) ELSE t
        IN name = NvmlDevices[d].uuid \/ name = <<Digits[d]>>

ThrottleRequested ==
    LET p == throttle[1].parameters
        w == IF "limit_watts" \in DOMAIN p THEN p["limit_watts"].number ELSE p["limit"].number
    IN IF w < 0 THEN 0 ELSE IF w \div 10 > UnsignedMax THEN UnsignedMax ELSE w \div 10

ByPrecedence(setting) ==
    IF cfg_input.flag[setting] # <<>> THEN cfg_input.flag[setting][1]
    ELSE IF cfg_input.env[setting] # <<>> THEN cfg_input.env[setting][1]
    ELSE IF cfg_input.file[setting] # <<>> THEN cfg_input.file[setting][1]
    ELSE IF setting = "orchestrator" THEN FALSE
    ELSE DefaultConfig[setting]

\* The value the agent runs with (an absent orchestrator section is a
\* disabled orchestrator).
EffectiveValue(setting) ==
    IF setting = "orchestrator"
    THEN (agent_config.orchestrator # <<>> /\ agent_config.orchestrator[1])
    ELSE agent_config[setting]

\* C28 (as stated): every setting has the value of the highest-priority level
\* that gives it, in the order flag > ESNODE_ variable > file > default.
C28_ConfigPrecedence ==
    cfg_pc = "loaded" =>
        \A setting \in ConfigSettings : EffectiveValue(setting) = ByPrecedence(setting)


\* The write_samples calls made in tick k.
WritesOfTick(k) == {j \in 1..Len(tsdb_writes) : tsdb_writes[j].tick = k}

\* The ts of the last write before tick k, <<>> if there was none.
LastWriteBefore(k) ==
    LET earlier == {j \in 1..Len(tsdb_writes) : tsdb_writes[j].tick < k}
    IN IF earlier = {} THEN <<>>
       ELSE <<tsdb_writes[CHOOSE j \in earlier : \A i \in earlier : i <= j].ts>>

\* C29: with the TSDB enabled, a tick appends a registry snapshot iff at
\* least the write interval (30 s) has passed since the last write (or
\* nothing was written yet); two consecutive appends are at least the
\* interval apart and no tick appends more than once; without the TSDB
\* nothing is appended.
C29_TsdbCadence ==
    /\ tsdb = "some" =>
          /\ \A k \in 1..Len(tsdb_ticks) :
                /\ Cardinality(WritesOfTick(k)) <= 1
                /\ WritesOfTick(k) # {} <=>
                      (LastWriteBefore(k) = <<>>
                          \/ tsdb_ticks[k] - LastWriteBefore(k)[1] >= TsdbInterval)
          /\ \A j \in 1..(Len(tsdb_writes) - 1) :
                tsdb_writes[j + 1].ts - tsdb_writes[j].ts >= TsdbInterval
    /\ tsdb # "some" => tsdb_writes = <<>>

\* two appends exactly one interval apart, with ticks in between that did not
\* append, the first append having failed
C29_Witness ==
    /\ tsdb = "some"
    /\ Len(tsdb_ticks) >= 4
    /\ Len(tsdb_writes) = 2
    /\ ~tsdb_writes[1].ok
    /\ tsdb_writes[2].tick >= tsdb_writes[1].tick + 2
    /\ tsdb_writes[2].ts - tsdb_writes[1].ts = TsdbInterval


C31_LoadFailure ==
    [][ (etick'.n # etick.n) =>
          /\ next_enforce' = next_enforce + EnforcementInterval
          /\ ~etick'.loaded =>
                /\ etick'.plan = <<>>
                /\ etick'.trace = <<>>
                /\ UNCHANGED <<last_actions, violations_total, enforced_total, applied_at>>
          /\ etick'.loaded =>
                \E load \in ProfileLoads :
                   /\ load.ok
                   /\ etick'.plan = plan(load.profile, gpu_status.gpus)
                   /\ \A i \in 1..Len(etick'.trace) :
                         etick'.trace[i].action # <<>> =>
                            \E k \in 1..Len(load.profile.policies) :
                               load.profile.policies[k].action = etick'.trace[i].action ]_vars

\* a tick that follows a failed load on which the file loads again and an
\* action is applied for a violation
C31_Witness ==
    /\ etick.after_failure
    /\ etick.loaded
    /\ etick.n >= 3
    /\ last_actions # etick.pre
    /\ \E i \in 1..Len(etick.trace) : etick.trace[i].outcome = "success"


\* C32: on each tick the primary NIC is a non-loopback interface with the
\* highest (rx + tx) delta, and the same interface is selected for the same
\* deltas whatever the order in which the interfaces are enumerated.
C32_PrimaryNicDeterministic ==
    nic_ticks > 0 =>
       /\ primary_nic # <<>> =>
             /\ primary_nic[1].iface # "lo"
             /\ \A n \in NicNames \ {"lo"} :
                   nic_deltas[n].rx_delta + nic_deltas[n].tx_delta
                      <= primary_nic[1].rx_delta + primary_nic[1].tx_delta
       /\ \A order \in NicOrders : select_best(<<>>, order, nic_deltas) = primary_nic


RECURSIVE LevelsOf(_)
\* the levels of a topic string written with one-character levels
LevelsOf(text) ==
    IF Len(text) <= 1 THEN <<text[1]>>
    ELSE <<text[1]>> \o LevelsOf(SubSeq(text, 3, Len(text)))

RECURSIVE MqttMatches(_, _)
\* MQTT wildcard matching on levels: a literal level matches the same level,
\* '+' one existing level, '#' all the remaining levels (none included)
MqttMatches(filter, name) ==
    IF filter = <<>> THEN name = <<>>
    ELSE IF Head(filter) = "#" THEN TRUE
    ELSE IF name = <<>> THEN FALSE
    ELSE IF Head(filter) = "+" \/ Head(filter) = Head(name)
         THEN MqttMatches(Tail(filter), Tail(name))
    ELSE FALSE

\* a filter whose '#', if any, is its last level
WellFormedFilter(filter) ==
    \A i \in 1..Len(filter) : filter[i] = "#" => i = Len(filter)

\* C33: topic_matches(pattern, topic) agrees with MQTT wildcard matching for
\* every well-formed pattern and every topic of up to MaxLevels levels.
C33_TopicMatching ==
    (mqtt_matched # "none" /\ WellFormedFilter(LevelsOf(mqtt_pattern))) =>
       (mqtt_matched = "true") = MqttMatches(LevelsOf(mqtt_pattern), LevelsOf(mqtt_topic))

\* C34: in the enforcement loop the action applied for a Violated plan entry
\* is the action of the policy rule that produced the entry (the one the
\* entry's own action description names), also when two rules of the profile
\* have the same name.
C34_ActionOfViolatingPolicy ==
    etick.loaded =>
       \A i \in 1..Len(etick.trace) :
          etick.trace[i].action # <<>> =>
             LET v == Violations(etick.plan)[i]
             IN /\ v.policy_name = etick.trace[i].policy_name
                /\ v.target_resource = etick.trace[i].target_resource
                /\ v.computed_action[2] = etick.trace[i].action.action_type
                /\ v.computed_action[1] = "Execute" => v.computed_action[3] = etick.trace[i].action.parameters

\* C35: after every tick, for every GPU assessed in that tick, the gauge
\* gpu_failure_risk_score{uuid} equals the risk_score of that tick's
\* assessment (a gauge that was never set reads 0), including when the score
\* has returned to 0 after having been positive.
C35_RiskGaugeFollows ==
    \A u \in DOMAIN risk_results :
       (IF u \in DOMAIN risk_gauge THEN risk_gauge[u] ELSE 0) = risk_results[u].risk_score

\* C36: when enforcement_mode is Monitor, over any number of enforcement
\* ticks and whatever the plans say, the action executor is never invoked,
\* the dampener is never armed and policy_enforced_total is never
\* incremented; violations are only counted.
C36_MonitorReadOnly ==
    mode = "Monitor" =>
       /\ last_actions = <<>>
       /\ enforced_total = <<>>
       /\ applied_at = <<>>
       /\ dlog = {}
       /\ \A i \in 1..Len(etick.trace) :
             /\ etick.trace[i].outcome = "monitored"
             /\ etick.trace[i].action = <<>>

\* Monitor mode, several ticks in, the same violation counted more than once
C36_Witness ==
    /\ mode = "Monitor"
    /\ etick.n >= 3
    /\ etick.loaded
    /\ etick.trace # <<>>
    /\ \E labels \in DOMAIN violations_total : violations_total[labels] >= 2


\* C37: an edit command rewrites the file so that only the named key (or the
\* enable flags of the named metric set) differs from the file's previous
\* content: every other setting the file had, tags and the drivers array
\* included, keeps its value.
C37_EditsOnlyNamed ==
    (last_edit.wrote /\ file_before # <<>>) =>
       /\ config_file # <<>>
       /\ \A k \in DOMAIN file_before[1] :
             (k \notin last_edit.named /\ file_before[1][k] # <<>>) =>
                config_file[1][k] = file_before[1][k]


\* C38: under any interleaving of the receiver task and read_all, the buffer
\* never holds more than BufferLimit readings when its lock is free (on
\* overflow the oldest DrainCount are discarded), and read_all returns every
\* reading that is in the buffer at the time of the call exactly once,
\* leaving the buffer empty.
C38_ReadingsBuffer ==
    /\ buffer_lock # "receiver" => Len(readings_buffer) <= BufferLimit
    /\ Len(readings_buffer) <= BufferLimit + 1
    /\ \A i, j \in 1..Len(readings_buffer) : i < j => readings_buffer[i] < readings_buffer[j]
    /\ last_read # <<>> =>
          /\ last_read[1].returned = last_read[1].found
          /\ last_read[1].left = <<>>
    /\ \A i, j \in 1..Len(delivered) : i # j => delivered[i] # delivered[j]
    /\ Elements(delivered) \cap Elements(readings_buffer) = {}
    /\ Elements(delivered) \cap discarded = {}
    /\ Elements(delivered) \cup Elements(readings_buffer) \cup discarded = 1..received

\* the buffer has overflowed, and read_all has since returned readings that
\* arrived after the discarded ones
C38_Witness ==
    /\ discarded = 1..DrainCount
    /\ read_calls >= 2
    /\ last_read # <<>>
    /\ Len(last_read[1].returned) >= 1
    /\ Len(delivered) >= BufferLimit

====
